---- MODULE Spec2Model ----
(***************************************************************************)
(* A model of the data structures of algo/graphs/python/ds:                *)
(*   PriorityIndexQueue (ds/priority_index_queue.py)                       *)
(*   PriorityQueue      (ds/priority_queue.py)                             *)
(*   UnionFind          (ds/union_find.py)                                 *)
(* Each class is a group of variables (prefix iq, hq, uf) with one action   *)
(* per public method.  A method that raises is an action too: it records   *)
(* the exception and keeps whatever the method had already written.        *)
(*                                                                         *)
(* and of the graph algorithms of algo/graphs/python that run on a graph   *)
(* (prefix g) built edge by edge and then handed to one constructor:       *)
(*   BreadthFirstPaths  (bread_first_paths.py)                             *)
(*   DepthFirstTopoSortRecursive (depth_first_toposort_recursive.py)       *)
(*   DepthFirstSCC      (depth_first_scc.py)                               *)
(***************************************************************************)
EXTENDS Integers, Sequences, FiniteSets, TLC

VARIABLES
    iq_capacity,  \* PriorityIndexQueue._capacity
    iq_compare,   \* PriorityIndexQueue._compare: "lt" is x < y, "gt" is x > y
    iq_count,     \* PriorityIndexQueue._count
    iq_keys,      \* PriorityIndexQueue._keys: index -> key or None
    iq_pq,        \* PriorityIndexQueue._pq:   heap slot -> index or None
    iq_qp,        \* PriorityIndexQueue._qp:   index -> heap slot or -1
    iq_raised,    \* the exception the latest call raised, "none" if it returned
    iq_allok,     \* TRUE while no call on the queue has raised
    iq_domain,    \* the keys the caller of the queue draws from
    hq_capacity,  \* PriorityQueue._capacity
    hq_compare,   \* PriorityQueue._compare
    hq_count,     \* PriorityQueue._count
    hq_pq,        \* PriorityQueue._pq: heap slot -> key or None
    hq_raised,    \* the exception the latest call raised, "none" if it returned
    uf_n_keys,    \* UnionFind._n_keys
    uf_n_sets,    \* UnionFind._n_sets
    uf_parent,    \* UnionFind._parent
    uf_size,      \* UnionFind._size
    uf_raised,    \* the exception the latest call raised, "none" if it returned
    uf_linked,    \* history: key -> the keys linked to it by the joins so far
    pc,           \* "build" while edges are added, then the caller's position
    g_n_vertices, \* the graph's _n_vertices
    g_n_edges,    \* the graph's _n_edges
    g_adj,        \* the graph's _adj: vertex -> list, in insertion order
    dg_call,      \* the latest add_edge call of the digraph's own client
    dg_raised,    \* the exception that call raised, "none" if it returned
    dg_added,     \* history: the add_edge calls that returned, in order
    dg_copy,      \* the graph from_graph returned
    bfs,          \* the BreadthFirstPaths object: its fields as a record
    bfs_path,     \* what the latest path_to(v) returned
    dfp,          \* the DepthFirstPathsRecursive object
    dfp_path,     \* what its latest path_to(v) returned
    bfs_run,      \* _bfs in progress: its queue Q, the vertex v dequeued,
                  \* what is left of adj(v), and the history of the
                  \* vertices pushed and dequeued so far
    topo,         \* the DepthFirstTopoSortRecursive object
    scc,          \* the DepthFirstSCC object
    gc,           \* the GraphCycle object
    gc_s,         \* GraphCycle.__init__: the next vertex s of its loop
    gc_calls,     \* GraphCycle._dfs: the calls in progress
    gc_cycle,     \* what the latest cycle() returned
    gc_walk,      \* GraphCycle._dfs: the walk x = edge_to[x] in progress
    kr_mst,       \* MstKruskal._mst
    kr_edges,     \* MstKruskal.__init__: the edges still to be pushed
    prim_lazy,    \* the MstPrimLazy object
    prim_eager,   \* the MstPrimEager object
    sp,           \* the PathDijkstra object
    sp_path       \* the latest path_to(v) of PathDijkstra: v and what it returned

iq_vars == <<iq_capacity, iq_compare, iq_count, iq_keys, iq_pq, iq_qp,
             iq_raised, iq_allok, iq_domain>>

hq_vars == <<hq_capacity, hq_compare, hq_count, hq_pq, hq_raised>>

uf_vars == <<uf_n_keys, uf_n_sets, uf_parent, uf_size, uf_raised, uf_linked>>

dg_vars == <<dg_call, dg_raised, dg_added, dg_copy>>

g_vars == <<g_n_vertices, g_n_edges, g_adj, dg_vars>>

dfp_vars == <<dfp, dfp_path>>
bfs_vars == <<bfs, bfs_path, bfs_run, dfp_vars>>

\* The graph and the algorithm objects.
topo_vars == <<topo>>

scc_vars == <<scc>>

gc_vars == <<gc, gc_s, gc_calls, gc_cycle, gc_walk>>

mst_vars == <<kr_mst, kr_edges, prim_lazy, prim_eager>>

sp_vars == <<sp, sp_path>>

gr_vars == <<pc, g_vars, bfs_vars, topo_vars, scc_vars, gc_vars, mst_vars,
             sp_vars>>

vars == <<iq_vars, hq_vars, uf_vars, gr_vars>>

-----------------------------------------------------------------------------
(* Bounds of the model.                                                    *)

MaxCapacity == 3
MaxHqCapacity == 5
MaxKey == 2
MaxCount == 4
MaxKeys == 5
MaxVertices == 4
MaxEdges == 4
MaxArcs == 3
\* The longest _cycle the walk of GraphCycle._dfs is followed to.
MaxWalk == 6
MaxWVertices == 3
MaxWEdges == 3
MaxDgVertices == 2
MaxDgCalls == 2

Keys == 1..MaxKey

-----------------------------------------------------------------------------
(* Python values.                                                          *)

\* None in a cell of a list (keys are integers from 0 up: 0.0 is the key
\* MstPrimEager and PathDijkstra give their first vertex).
None == 0 - 1

\* None in a _pq cell (indices are 0.._capacity, so None needs its own code).
NoIndex == 0 - 2

Comparators == {"lt", "gt"}

\* The comparator handed to the constructor: lambda x, y: x < y for the
\* "max" queue of the test client, lambda x, y: x > y for its "min" queue.
\* On numbers these are "lt" and "gt".  On Edge keys x < y is Edge.__lt__,
\* which compares the weights ("edge_lt"); on Pair keys x > y is
\* Pair.__gt__, which compares the values ("pair_gt").  An Edge is kept as
\* one integer whose part above 100 is the weight, a Pair as one integer
\* whose part above 10000 is the value.
Compare(cmp, x, y) ==
    IF cmp = "lt" THEN x < y
    ELSE IF cmp = "gt" THEN x > y
    ELSE IF cmp = "edge_lt" THEN (x \div 100) < (y \div 100)
    ELSE (x \div 10000) > (y \div 10000)

-----------------------------------------------------------------------------
(* PriorityIndexQueue.  The lists _keys, _pq and _qp have _capacity + 1    *)
(* cells, 0.._capacity; a subscript above that raises IndexError.          *)

IqCells == 0..iq_capacity

IqState == [count |-> iq_count, keys |-> iq_keys, pq |-> iq_pq, qp |-> iq_qp]

Ok(q) == [q |-> q, err |-> "none"]

Raise(q, e) == [q |-> q, err |-> e]

is_valid(i) == i >= 0 /\ i <= iq_capacity

\* contains(i) asserts is_valid(i) first; this is its value when it returns.
contains(q, i) == q.qp[i] # -1

\* The exception _comp(i, j) raises, "none" when it returns a value:
\* _compare(_keys[_pq[i]], _keys[_pq[j]]), evaluated left to right.
CompErr(q, i, j) ==
    IF i \notin IqCells THEN "IndexError"
    ELSE IF q.pq[i] = NoIndex THEN "TypeError"
    ELSE IF j \notin IqCells THEN "IndexError"
    ELSE IF q.pq[j] = NoIndex THEN "TypeError"
    ELSE IF q.keys[q.pq[i]] = None \/ q.keys[q.pq[j]] = None THEN "TypeError"
    ELSE "none"

_comp(q, i, j) == Compare(iq_compare, q.keys[q.pq[i]], q.keys[q.pq[j]])

\* A _swap that writes _qp for the first of the two cells only.
_swap_one_qp(q, i, j) ==
    IF j \notin IqCells \/ i \notin IqCells THEN Raise(q, "IndexError")
    ELSE LET pq1 == [q.pq EXCEPT ![i] = q.pq[j], ![j] = q.pq[i]]
             q1  == [q EXCEPT !.pq = pq1]
         IN  IF pq1[i] = NoIndex THEN Raise(q1, "TypeError")
             ELSE Ok([q1 EXCEPT !.qp[pq1[i]] = i])

\* _swap(i, j): the right-hand side reads _pq[j] then _pq[i]; the two cells
\* are written; then _qp is written through the new _pq[i] and _pq[j].
_swap(q, i, j) ==
    IF j \notin IqCells \/ i \notin IqCells THEN Raise(q, "IndexError")
    ELSE LET pq1 == [q.pq EXCEPT ![i] = q.pq[j], ![j] = q.pq[i]]
             q1  == [q EXCEPT !.pq = pq1]
         IN  IF pq1[i] = NoIndex THEN Raise(q1, "TypeError")
             ELSE LET q2 == [q1 EXCEPT !.qp[pq1[i]] = i]
                  IN  IF pq1[j] = NoIndex THEN Raise(q2, "TypeError")
                      ELSE Ok([q2 EXCEPT !.qp[pq1[j]] = j])

RECURSIVE _swim(_, _)
_swim(q, k) ==
    IF k <= 1 THEN Ok(q)
    ELSE LET e == CompErr(q, k \div 2, k)
         IN  IF e # "none" THEN Raise(q, e)
             ELSE IF ~_comp(q, k \div 2, k) THEN Ok(q)
             ELSE LET s == _swap(q, k \div 2, k)
                  IN  IF s.err # "none" THEN s ELSE _swim(s.q, k \div 2)

RECURSIVE _sink(_, _)
_sink(q, k) ==
    IF 2 * k > q.count THEN Ok(q)
    ELSE LET l  == 2 * k
             e1 == IF l < q.count THEN CompErr(q, l, l + 1) ELSE "none"
         IN  IF e1 # "none" THEN Raise(q, e1)
             ELSE LET j  == IF l < q.count /\ _comp(q, l, l + 1) THEN l + 1 ELSE l
                      e2 == CompErr(q, j, k)
                  IN  IF e2 # "none" THEN Raise(q, e2)
                      ELSE IF _comp(q, j, k) THEN Ok(q)
                      ELSE LET s == _swap(q, j, k)
                           IN  IF s.err # "none" THEN s ELSE _sink(s.q, j)

\* A push without its assertion that the index is not in the queue.
push_unasserted(q, i, key) ==
    IF ~is_valid(i) THEN Raise(q, "AssertionError")
    ELSE LET n  == q.count + 1
             q1 == [q EXCEPT !.count = n, !.qp[i] = n]
         IN  IF n \notin IqCells THEN Raise(q1, "IndexError")
             ELSE _swim([q1 EXCEPT !.pq[n] = i, !.keys[i] = key], n)

\* push(i, key)
push(q, i, key) ==
    IF ~is_valid(i) THEN Raise(q, "AssertionError")
    ELSE IF contains(q, i) THEN Raise(q, "AssertionError")
    ELSE LET n  == q.count + 1
             q1 == [q EXCEPT !.count = n, !.qp[i] = n]
         IN  IF n \notin IqCells THEN Raise(q1, "IndexError")
             ELSE _swim([q1 EXCEPT !.pq[n] = i, !.keys[i] = key], n)

\* pop()
pop(q) ==
    IF q.count = 0 THEN Raise(q, "AssertionError")
    ELSE LET min == q.pq[1]
             s1  == _swap(q, 1, q.count)
         IN  IF s1.err # "none" THEN s1
             ELSE LET s2 == _sink([s1.q EXCEPT !.count = @ - 1], 1)
                  IN  IF s2.err # "none" THEN s2
                      ELSE Ok([s2.q EXCEPT !.qp[min] = -1,
                                           !.keys[min] = None,
                                           !.pq[s2.q.count + 1] = 0])

\* change(i, key)
change(q, i, key) ==
    IF ~is_valid(i) THEN Raise(q, "AssertionError")
    ELSE IF ~contains(q, i) THEN Raise(q, "AssertionError")
    ELSE LET s1 == _swim([q EXCEPT !.keys[i] = key], q.qp[i])
         IN  IF s1.err # "none" THEN s1 ELSE _sink(s1.q, s1.q.qp[i])

\* delete(i)
delete(q, i) ==
    IF ~is_valid(i) THEN Raise(q, "AssertionError")
    ELSE IF ~contains(q, i) THEN Raise(q, "AssertionError")
    ELSE LET index == q.qp[i]
             s1    == _swap(q, index, q.count)
         IN  IF s1.err # "none" THEN s1
             ELSE LET s2 == _swim([s1.q EXCEPT !.count = @ - 1], index)
                  IN  IF s2.err # "none" THEN s2
                      ELSE LET s3 == _sink(s2.q, index)
                           IN  IF s3.err # "none" THEN s3
                               ELSE Ok([s3.q EXCEPT !.keys[i] = None,
                                                    !.qp[i] = -1])

\* clear()
clear(q) ==
    Ok([count |-> 0,
        keys  |-> [c \in IqCells |-> None],
        pq    |-> [c \in IqCells |-> NoIndex],
        qp    |-> [c \in IqCells |-> -1]])

\* top(), top_ix(), key_of(i), contains(i): the exception raised, and the
\* value returned when there is none.
top_err(q) == IF q.count = 0 THEN "AssertionError" ELSE "none"

top_ix(q) == q.pq[1]

top(q) == q.keys[q.pq[1]]

contains_err(i) == IF is_valid(i) THEN "none" ELSE "AssertionError"

key_of_err(q, i) ==
    IF ~is_valid(i) THEN "AssertionError"
    ELSE IF ~contains(q, i) THEN "AssertionError"
    ELSE "none"

key_of(q, i) == q.keys[i]

-----------------------------------------------------------------------------
(* The queue as a state machine: one action per public method.             *)

\* The arguments a caller may pass: every valid index and one on each side.
IqArgs == -1 .. (iq_capacity + 1)

IqReturn(r) ==
    /\ iq_count' = r.q.count
    /\ iq_keys' = r.q.keys
    /\ iq_pq' = r.q.pq
    /\ iq_qp' = r.q.qp
    /\ iq_raised' = r.err
    /\ iq_allok' = (iq_allok /\ r.err = "none")
    /\ UNCHANGED <<iq_capacity, iq_compare, iq_domain>>
    /\ UNCHANGED <<hq_vars, uf_vars, gr_vars>>

IqInit ==
    /\ iq_capacity \in 1..MaxCapacity
    /\ iq_compare \in Comparators
    /\ iq_count = 0
    /\ iq_keys = [c \in 0..iq_capacity |-> None]
    /\ iq_pq = [c \in 0..iq_capacity |-> NoIndex]
    /\ iq_qp = [c \in 0..iq_capacity |-> -1]
    /\ iq_raised = "none"
    /\ iq_allok = TRUE
    /\ iq_domain = Keys

IqPush == \E i \in IqArgs, key \in iq_domain : IqReturn(push(IqState, i, key))

IqPop == IqReturn(pop(IqState))

IqChange == \E i \in IqArgs, key \in iq_domain : IqReturn(change(IqState, i, key))

IqDelete == \E i \in IqArgs : IqReturn(delete(IqState, i))

IqClear == IqReturn(clear(IqState))

IqTop == IqReturn(Raise(IqState, top_err(IqState)))

IqTopIx == IqReturn(Raise(IqState, top_err(IqState)))

IqKeyOf == \E i \in IqArgs : IqReturn(Raise(IqState, key_of_err(IqState, i)))

IqContains == \E i \in IqArgs : IqReturn(Raise(IqState, contains_err(i)))

IqNext ==
    \/ IqPush
    \/ IqPop
    \/ IqChange
    \/ IqDelete
    \/ IqClear
    \/ IqTop
    \/ IqTopIx
    \/ IqKeyOf
    \/ IqContains


-----------------------------------------------------------------------------
(* PriorityQueue.  _pq is a list whose cells are 0..len(_pq) - 1: the      *)
(* constructor makes _capacity + 1 of them, _resize(capacity) makes        *)
(* capacity of them.                                                       *)

HqState == [capacity |-> hq_capacity, count |-> hq_count, pq |-> hq_pq]

\* The exception _comp(i, j) raises, "none" when it returns a value.
HeapCompErr(h, i, j) ==
    IF i \notin DOMAIN h.pq \/ j \notin DOMAIN h.pq THEN "IndexError"
    ELSE IF h.pq[i] = None \/ h.pq[j] = None THEN "TypeError"
    ELSE "none"

heap_comp(h, i, j) == Compare(hq_compare, h.pq[i], h.pq[j])

\* _swap(i, j)
heap_swap(h, i, j) ==
    IF i \notin DOMAIN h.pq \/ j \notin DOMAIN h.pq THEN Raise(h, "IndexError")
    ELSE Ok([h EXCEPT !.pq = [h.pq EXCEPT ![j] = h.pq[i], ![i] = h.pq[j]]])

RECURSIVE heap_swim(_, _)
heap_swim(h, k) ==
    IF k <= 1 THEN Ok(h)
    ELSE LET e == HeapCompErr(h, k \div 2, k)
         IN  IF e # "none" THEN Raise(h, e)
             ELSE IF ~heap_comp(h, k \div 2, k) THEN Ok(h)
             ELSE LET s == heap_swap(h, k \div 2, k)
                  IN  IF s.err # "none" THEN s ELSE heap_swim(s.q, k \div 2)

RECURSIVE heap_sink(_, _)
heap_sink(h, k) ==
    IF 2 * k > h.count THEN Ok(h)
    ELSE LET l  == 2 * k
             e1 == IF l < h.count THEN HeapCompErr(h, l, l + 1) ELSE "none"
         IN  IF e1 # "none" THEN Raise(h, e1)
             ELSE LET j  == IF l < h.count /\ heap_comp(h, l, l + 1)
                            THEN l + 1 ELSE l
                      e2 == HeapCompErr(h, j, k)
                  IN  IF e2 # "none" THEN Raise(h, e2)
                      ELSE IF heap_comp(h, j, k) THEN Ok(h)
                      ELSE LET s == heap_swap(h, j, k)
                           IN  IF s.err # "none" THEN s ELSE heap_sink(s.q, j)

\* _resize(capacity): _capacity is set first, the copy replaces _pq last.
heap_resize(h, capacity) ==
    LET h1 == [h EXCEPT !.capacity = capacity]
    IN  IF \E i \in 1..h.count : i \notin DOMAIN h.pq \/ i >= capacity
        THEN Raise(h1, "IndexError")
        ELSE Ok([h1 EXCEPT !.pq = [c \in 0..(capacity - 1) |->
                                     IF c \in 1..h.count THEN h.pq[c] ELSE None]])

\* A push that grows the queue when count has reached the capacity.
heap_push_at_capacity(h, key) ==
    LET s1 == IF h.count = h.capacity
              THEN heap_resize(h, 2 * h.capacity) ELSE Ok(h)
    IN  IF s1.err # "none" THEN s1
        ELSE LET n  == s1.q.count + 1
                 h1 == [s1.q EXCEPT !.count = n]
             IN  IF n \notin DOMAIN h1.pq THEN Raise(h1, "IndexError")
                 ELSE heap_swim([h1 EXCEPT !.pq[n] = key], n)

\* push(key)
heap_push(h, key) ==
    LET s1 == IF h.count = h.capacity - 1
              THEN heap_resize(h, 2 * h.capacity) ELSE Ok(h)
    IN  IF s1.err # "none" THEN s1
        ELSE LET n  == s1.q.count + 1
                 h1 == [s1.q EXCEPT !.count = n]
             IN  IF n \notin DOMAIN h1.pq THEN Raise(h1, "IndexError")
                 ELSE heap_swim([h1 EXCEPT !.pq[n] = key], n)

\* pop()
heap_pop(h) ==
    IF h.count = 0 THEN Raise(h, "AssertionError")
    ELSE LET s1 == heap_swap(h, 1, h.count)
         IN  IF s1.err # "none" THEN s1
             ELSE LET s2 == heap_sink([s1.q EXCEPT !.count = @ - 1], 1)
                  IN  IF s2.err # "none" THEN s2
                      ELSE IF s2.q.count > 0
                              /\ s2.q.count = (s2.q.capacity - 1) \div 4
                           THEN heap_resize(s2.q, s2.q.capacity \div 2)
                           ELSE s2

\* clear()
heap_clear(h) ==
    Ok([h EXCEPT !.count = 0, !.pq = [c \in 0..h.capacity |-> None]])

\* top()
heap_top_err(h) == IF h.count = 0 THEN "AssertionError" ELSE "none"

heap_top(h) == h.pq[1]

HqReturn(r) ==
    /\ hq_capacity' = r.q.capacity
    /\ hq_count' = r.q.count
    /\ hq_pq' = r.q.pq
    /\ hq_raised' = r.err
    /\ UNCHANGED hq_compare
    /\ UNCHANGED <<iq_vars, uf_vars, gr_vars>>

HqInit ==
    /\ hq_capacity \in 1..MaxHqCapacity
    /\ hq_compare \in Comparators
    /\ hq_count = 0
    /\ hq_pq = [c \in 0..hq_capacity |-> None]
    /\ hq_raised = "none"

\* The number of stored keys is capped at MaxCount.
HqPush ==
    /\ hq_count < MaxCount
    /\ \E key \in Keys : HqReturn(heap_push(HqState, key))

HqPop == HqReturn(heap_pop(HqState))

HqClear == HqReturn(heap_clear(HqState))

HqTop == HqReturn(Raise(HqState, heap_top_err(HqState)))

HqNext ==
    \/ HqPush
    \/ HqPop
    \/ HqClear
    \/ HqTop

-----------------------------------------------------------------------------
(* UnionFind.                                                              *)

UfState == [n_sets |-> uf_n_sets, parent |-> uf_parent, size |-> uf_size]

uf_contains(p) == p >= 0 /\ p < uf_n_keys

\* find(p), first loop: follow the parent links from p to the root.
RECURSIVE FindRoot(_, _)
FindRoot(parent, root) ==
    IF root = parent[root] THEN root ELSE FindRoot(parent, parent[root])

\* A second loop that is left out: the path is not compressed.
Compress_skipped(parent, key, root) == parent

\* find(p), second loop: point every key from p up to the root at the root.
RECURSIVE Compress(_, _, _)
Compress(parent, key, root) ==
    IF key = parent[key] THEN parent
    ELSE Compress([parent EXCEPT ![key] = root], parent[key], root)

\* find(p): the state it leaves and the root it returns.
find(u, p) ==
    IF ~uf_contains(p) THEN [q |-> u, err |-> "AssertionError", ret |-> -1]
    ELSE LET root == FindRoot(u.parent, p)
         IN  [q   |-> [u EXCEPT !.parent = Compress(u.parent, p, root)],
              err |-> "none",
              ret |-> root]

\* A join that links the larger set below the root of the smaller one.
join_larger_below(u, p, q) ==
    LET fp == find(u, p)
    IN  IF fp.err # "none" THEN Raise(fp.q, fp.err)
        ELSE LET fq == find(fp.q, q)
             IN  IF fq.err # "none" THEN Raise(fq.q, fq.err)
                 ELSE LET root_p == fp.ret
                          root_q == fq.ret
                          v      == fq.q
                      IN  IF root_p = root_q THEN Ok(v)
                          ELSE IF v.size[root_p] > v.size[root_q]
                          THEN Ok([v EXCEPT
                                     !.parent[root_p] = root_q,
                                     !.size[root_q] = @ + v.size[root_p],
                                     !.n_sets = @ - 1])
                          ELSE Ok([v EXCEPT
                                     !.parent[root_q] = root_p,
                                     !.size[root_p] = @ + v.size[root_q],
                                     !.n_sets = @ - 1])

\* A join that links the keys p and q themselves instead of their roots.
join_links_keys(u, p, q) ==
    LET fp == find(u, p)
    IN  IF fp.err # "none" THEN Raise(fp.q, fp.err)
        ELSE LET fq == find(fp.q, q)
             IN  IF fq.err # "none" THEN Raise(fq.q, fq.err)
                 ELSE LET root_p == fp.ret
                          root_q == fq.ret
                          v      == fq.q
                      IN  IF root_p = root_q THEN Ok(v)
                          ELSE IF v.size[root_p] < v.size[root_q]
                          THEN Ok([v EXCEPT
                                     !.parent[p] = root_q,
                                     !.size[root_q] = @ + v.size[root_p],
                                     !.n_sets = @ - 1])
                          ELSE Ok([v EXCEPT
                                     !.parent[q] = root_p,
                                     !.size[root_p] = @ + v.size[root_q],
                                     !.n_sets = @ - 1])

\* A join that counts a set less even when p and q are already connected.
join_always_counts(u, p, q) ==
    LET fp == find(u, p)
    IN  IF fp.err # "none" THEN Raise(fp.q, fp.err)
        ELSE LET fq == find(fp.q, q)
             IN  IF fq.err # "none" THEN Raise(fq.q, fq.err)
                 ELSE LET root_p == fp.ret
                          root_q == fq.ret
                          v      == fq.q
                      IN  IF root_p = root_q THEN Ok([v EXCEPT !.n_sets = @ - 1])
                          ELSE IF v.size[root_p] < v.size[root_q]
                          THEN Ok([v EXCEPT
                                     !.parent[root_p] = root_q,
                                     !.size[root_q] = @ + v.size[root_p],
                                     !.n_sets = @ - 1])
                          ELSE Ok([v EXCEPT
                                     !.parent[root_q] = root_p,
                                     !.size[root_p] = @ + v.size[root_q],
                                     !.n_sets = @ - 1])

\* A join that adds the size to the root that became the child.
join_sizes_child(u, p, q) ==
    LET fp == find(u, p)
    IN  IF fp.err # "none" THEN Raise(fp.q, fp.err)
        ELSE LET fq == find(fp.q, q)
             IN  IF fq.err # "none" THEN Raise(fq.q, fq.err)
                 ELSE LET root_p == fp.ret
                          root_q == fq.ret
                          v      == fq.q
                      IN  IF root_p = root_q THEN Ok(v)
                          ELSE IF v.size[root_p] < v.size[root_q]
                          THEN Ok([v EXCEPT
                                     !.parent[root_p] = root_q,
                                     !.size[root_p] = @ + v.size[root_q],
                                     !.n_sets = @ - 1])
                          ELSE Ok([v EXCEPT
                                     !.parent[root_q] = root_p,
                                     !.size[root_q] = @ + v.size[root_p],
                                     !.n_sets = @ - 1])

\* join(p, q)
join(u, p, q) ==
    LET fp == find(u, p)
    IN  IF fp.err # "none" THEN Raise(fp.q, fp.err)
        ELSE LET fq == find(fp.q, q)
             IN  IF fq.err # "none" THEN Raise(fq.q, fq.err)
                 ELSE LET root_p == fp.ret
                          root_q == fq.ret
                          v      == fq.q
                      IN  IF root_p = root_q THEN Ok(v)
                          ELSE IF v.size[root_p] < v.size[root_q]
                          THEN Ok([v EXCEPT
                                     !.parent[root_p] = root_q,
                                     !.size[root_q] = @ + v.size[root_p],
                                     !.n_sets = @ - 1])
                          ELSE Ok([v EXCEPT
                                     !.parent[root_q] = root_p,
                                     !.size[root_p] = @ + v.size[root_q],
                                     !.n_sets = @ - 1])

\* connected(p, q): find(p) == find(q), find(p) first.
connected(u, p, q) ==
    LET fp == find(u, p)
    IN  IF fp.err # "none" THEN [q |-> fp.q, err |-> fp.err, ret |-> FALSE]
        ELSE LET fq == find(fp.q, q)
             IN  [q |-> fq.q, err |-> fq.err,
                  ret |-> (fq.err = "none" /\ fp.ret = fq.ret)]

\* size(p): _size[find(p)]
size(u, p) ==
    LET fp == find(u, p)
    IN  [q |-> fp.q, err |-> fp.err,
         ret |-> IF fp.err = "none" THEN fp.q.size[fp.ret] ELSE -1]

\* The arguments a caller may pass: every key and one on each side.
UfArgs == -1 .. uf_n_keys

UfReturn(r) ==
    /\ uf_n_sets' = r.q.n_sets
    /\ uf_parent' = r.q.parent
    /\ uf_size' = r.q.size
    /\ uf_raised' = r.err
    /\ UNCHANGED uf_n_keys
    /\ UNCHANGED <<iq_vars, hq_vars, gr_vars>>

\* The history of a join(p, q) that returned: p's and q's keys are linked.
Link(linked, p, q) ==
    LET both == linked[p] \cup linked[q]
    IN  [k \in DOMAIN linked |-> IF k \in both THEN both ELSE linked[k]]

UfInit ==
    /\ uf_n_keys \in 1..MaxKeys
    /\ uf_n_sets = uf_n_keys
    /\ uf_parent = [i \in 0..(uf_n_keys - 1) |-> i]
    /\ uf_size = [i \in 0..(uf_n_keys - 1) |-> 1]
    /\ uf_raised = "none"
    /\ uf_linked = [i \in 0..(uf_n_keys - 1) |-> {i}]

UfJoin ==
    \E p \in UfArgs, q \in UfArgs :
        LET r == join(UfState, p, q)
        IN  /\ UfReturn(r)
            /\ uf_linked' = IF r.err = "none" THEN Link(uf_linked, p, q)
                            ELSE uf_linked

UfFind == \E p \in UfArgs : UfReturn(find(UfState, p)) /\ UNCHANGED uf_linked

UfConnected ==
    \E p \in UfArgs, q \in UfArgs :
        UfReturn(connected(UfState, p, q)) /\ UNCHANGED uf_linked

UfSize == \E p \in UfArgs : UfReturn(size(UfState, p)) /\ UNCHANGED uf_linked

UfNext ==
    \/ UfJoin
    \/ UfFind
    \/ UfConnected
    \/ UfSize


-----------------------------------------------------------------------------
(* Python values of the graph algorithms.                                  *)

\* The vertex states every algorithm object sets up in its constructor:
\* self.NEW (NEW is a reserved word here) and self.VISITED.
STATE_NEW == 0

VISITED == 1

\* numpy.inf: above every distance and every weight of the model.
numpy_inf == 1000

\* collections.deque as used by Queue (ds/queue.py) and Stack (ds/stack.py):
\* both append at the end; Queue pops the front, Stack pops the end, and
\* iterating a Stack goes from the end to the front.
queue_push(Q, item) == Append(Q, item)

queue_top(Q) == Head(Q)

queue_pop(Q) == Tail(Q)

stack_push(S, item) == Append(S, item)

stack_top(S) == S[Len(S)]

stack_pop(S) == SubSeq(S, 1, Len(S) - 1)

stack_iter(S) == [i \in 1..Len(S) |-> S[Len(S) + 1 - i]]

-----------------------------------------------------------------------------
(* Graphs.  _adj[v] is a list in insertion order and adj(v) iterates it    *)
(* reversed.  DiGraph (ds/digraph.py) stores v -> w in v's list; the       *)
(* undirected Graph stores an edge in the lists of both its endpoints.     *)

GState == [n_vertices |-> g_n_vertices, n_edges |-> g_n_edges, adj |-> g_adj]

\* No graph object.
NoGraph == [n_vertices |-> 0 - 1, n_edges |-> 0, adj |-> <<>>]

vertices(g) == 0..(g.n_vertices - 1)

vertex_is_valid(g, v) == v >= 0 /\ v < g.n_vertices

adj(g, v) == [i \in 1..Len(g.adj[v]) |-> g.adj[v][Len(g.adj[v]) + 1 - i]]

\* Graph.add_edge(v, w) on valid vertices.
graph_add_edge(g, v, w) ==
    [g EXCEPT !.adj[v] = Append(@, w), !.adj[w] = Append(@, v), !.n_edges = @ + 1]

GReturn(g) ==
    /\ g_n_vertices' = g.n_vertices
    /\ g_n_edges' = g.n_edges
    /\ g_adj' = g.adj
    /\ UNCHANGED dg_vars

\* Graph(n_vertices)
GInit ==
    /\ pc = "build"
    /\ g_n_vertices \in 1..MaxVertices
    /\ g_n_edges = 0
    /\ g_adj = [v \in 0..(g_n_vertices - 1) |-> <<>>]

\* The build phase of an undirected graph: one add_edge(v, w) per edge of a
\* simple graph, in any order.
GraphAddEdge ==
    /\ pc = "build"
    /\ g_n_edges < MaxEdges
    /\ \E v \in vertices(GState), w \in vertices(GState) :
          /\ vertex_is_valid(GState, v) /\ vertex_is_valid(GState, w)
          /\ v < w
          /\ \A i \in 1..Len(g_adj[v]) : g_adj[v][i] # w
          /\ GReturn(graph_add_edge(GState, v, w))
    /\ UNCHANGED <<pc, bfs_vars, topo_vars, scc_vars>>
    /\ UNCHANGED <<iq_vars, hq_vars, uf_vars, gc_vars, mst_vars, sp_vars>>

-----------------------------------------------------------------------------
(* BreadthFirstPaths.                                                      *)

\* The object before its constructor has run.
NoBfs == [source |-> 0, state |-> <<>>, edge_to |-> <<>>, dist_to |-> <<>>]

\* path_to's None.
NoPath == [none |-> TRUE, stack |-> <<>>]

\* is_visited(v)
is_visited(b, v) == b.state[v] = VISITED

\* dist_to(v)
dist_to(b, v) == b.dist_to[v]

\* A for loop that takes the distance of w from the vertex edge_to[w] named
\* before this visit, not from v.
RECURSIVE bfs_for_stale_parent(_, _, _, _)
bfs_for_stale_parent(b, Q, v, ws) ==
    IF ws = <<>> THEN [b |-> b, Q |-> Q]
    ELSE LET w == Head(ws)
         IN  IF b.state[w] = STATE_NEW
             THEN bfs_for_stale_parent(
                      [b EXCEPT !.state[w] = VISITED,
                                !.dist_to[w] = b.dist_to[b.edge_to[w]] + 1,
                                !.edge_to[w] = v],
                      queue_push(Q, w), v, Tail(ws))
             ELSE bfs_for_stale_parent(b, Q, v, Tail(ws))

\* A for loop that marks and pushes every neighbour but the source, new
\* or not.
RECURSIVE bfs_for_any_state(_, _, _, _)
bfs_for_any_state(b, Q, v, ws) ==
    IF ws = <<>> THEN [b |-> b, Q |-> Q]
    ELSE LET w == Head(ws)
         IN  IF w # b.source
             THEN bfs_for_any_state(
                      [b EXCEPT !.state[w] = VISITED,
                                !.dist_to[w] = b.dist_to[v] + 1,
                                !.edge_to[w] = v],
                      queue_push(Q, w), v, Tail(ws))
             ELSE bfs_for_any_state(b, Q, v, Tail(ws))

\* _bfs, the for loop over adj(v); ws is what is left of the iteration.
RECURSIVE bfs_for(_, _, _, _)
bfs_for(b, Q, v, ws) ==
    IF ws = <<>> THEN [b |-> b, Q |-> Q]
    ELSE LET w == Head(ws)
         IN  IF b.state[w] = STATE_NEW
             THEN bfs_for([b EXCEPT !.state[w] = VISITED,
                                    !.dist_to[w] = b.dist_to[v] + 1,
                                    !.edge_to[w] = v],
                          queue_push(Q, w), v, Tail(ws))
             ELSE bfs_for(b, Q, v, Tail(ws))

\* _bfs, the while loop over the queue.
RECURSIVE bfs_while(_, _, _)
bfs_while(g, b, Q) ==
    IF Q = <<>> THEN b
    ELSE LET v == queue_top(Q)
             r == bfs_for(b, queue_pop(Q), v, adj(g, v))
         IN  bfs_while(g, r.b, r.Q)

\* _bfs(graph, s)
_bfs(g, b, s) ==
    bfs_while(g, [b EXCEPT !.state[s] = VISITED, !.dist_to[s] = 0],
              queue_push(<<>>, s))

\* BreadthFirstPaths(graph, source)
BreadthFirstPaths(g, source) ==
    _bfs(g,
         [source  |-> source,
          state   |-> [v \in vertices(g) |-> STATE_NEW],
          edge_to |-> [v \in vertices(g) |-> 0],
          dist_to |-> [v \in vertices(g) |-> numpy_inf]],
         source)

\* path_to, the while loop from x up to the source.
RECURSIVE path_to_while(_, _, _)
path_to_while(b, R, x) ==
    IF x = b.source THEN R
    ELSE path_to_while(b, stack_push(R, x), b.edge_to[x])

\* A path_to that leaves the source out of the path.
path_to_less_source(b, v) ==
    IF ~is_visited(b, v) THEN NoPath
    ELSE [none |-> FALSE, stack |-> path_to_while(b, <<>>, v)]

\* path_to(v): None, or the Stack it returns.
path_to(b, v) ==
    IF ~is_visited(b, v) THEN NoPath
    ELSE [none  |-> FALSE,
          stack |-> stack_push(path_to_while(b, <<>>, v), b.source)]

BfsConstruct ==
    /\ pc = "build"
    /\ \E source \in vertices(GState) : bfs' = BreadthFirstPaths(GState, source)
    /\ pc' = "done"
    /\ UNCHANGED <<g_vars, bfs_path, bfs_run, dfp_vars, topo_vars, scc_vars>>
    /\ UNCHANGED <<iq_vars, hq_vars, uf_vars, gc_vars, mst_vars, sp_vars>>

BfsPathTo ==
    /\ pc = "done"
    /\ \E v \in vertices(GState) : bfs_path' = path_to(bfs, v)
    /\ UNCHANGED <<pc, g_vars, bfs, bfs_run, dfp_vars, topo_vars, scc_vars>>
    /\ UNCHANGED <<iq_vars, hq_vars, uf_vars, gc_vars, mst_vars, sp_vars>>

BfsNext ==
    \/ GraphAddEdge
    \/ BfsConstruct
    \/ BfsPathTo

\* _bfs one step at a time.  No _bfs is running.
NoBfsRun == [Q |-> <<>>, v |-> 0, ws |-> <<>>, pushed |-> <<>>, popped |-> <<>>]

BfsRunFrame ==
    /\ UNCHANGED <<g_vars, bfs_path, dfp_vars, topo_vars, scc_vars>>
    /\ UNCHANGED <<iq_vars, hq_vars, uf_vars, gc_vars, mst_vars, sp_vars>>

\* BreadthFirstPaths(graph, source) up to the while loop of _bfs: the
\* source is marked, given the distance 0 and pushed.
BfsRunStart ==
    /\ pc = "build"
    /\ \E source \in vertices(GState) :
          /\ bfs' = [source  |-> source,
                     state   |-> [v \in vertices(GState) |->
                                    IF v = source THEN VISITED ELSE STATE_NEW],
                     edge_to |-> [v \in vertices(GState) |-> 0],
                     dist_to |-> [v \in vertices(GState) |->
                                    IF v = source THEN 0 ELSE numpy_inf]]
          /\ bfs_run' = [NoBfsRun EXCEPT !.Q = queue_push(<<>>, source),
                                         !.pushed = <<source>>]
    /\ pc' = "bfs_loop"
    /\ BfsRunFrame

\* while not Q.is_empty(): v = Q.pop(), and the for loop over adj(v) starts.
BfsRunPop ==
    /\ pc = "bfs_loop"
    /\ bfs_run.ws = <<>>
    /\ bfs_run.Q # <<>>
    /\ bfs_run' = [bfs_run EXCEPT !.Q = queue_pop(@),
                                  !.v = queue_top(bfs_run.Q),
                                  !.ws = adj(GState, queue_top(bfs_run.Q)),
                                  !.popped = Append(@, queue_top(bfs_run.Q))]
    /\ UNCHANGED <<pc, bfs>>
    /\ BfsRunFrame

\* One pass of the for loop: the neighbour w at the head of what is left.
BfsRunVisit ==
    /\ pc = "bfs_loop"
    /\ bfs_run.ws # <<>>
    /\ \E r \in {bfs_for(bfs, bfs_run.Q, bfs_run.v, <<Head(bfs_run.ws)>>)} :
          /\ bfs' = r.b
          /\ bfs_run' = [bfs_run EXCEPT
                            !.Q = r.Q,
                            !.ws = Tail(@),
                            !.pushed = @ \o SubSeq(r.Q, Len(bfs_run.Q) + 1, Len(r.Q))]
    /\ UNCHANGED pc
    /\ BfsRunFrame

\* The while loop ends: the queue is empty.
BfsRunReturn ==
    /\ pc = "bfs_loop"
    /\ bfs_run.ws = <<>>
    /\ bfs_run.Q = <<>>
    /\ pc' = "bfs_done"
    /\ UNCHANGED <<bfs, bfs_run>>
    /\ BfsRunFrame

BfsRunNext ==
    \/ GraphAddEdge
    \/ BfsRunStart
    \/ BfsRunPop
    \/ BfsRunVisit
    \/ BfsRunReturn

-----------------------------------------------------------------------------
(* DepthFirstPathsRecursive.                                               *)

\* The object before its constructor has run.
NoDfp == [source |-> 0, state |-> <<>>, edge_to |-> <<>>]

\* A for loop that records the source, not v, as the vertex w was reached
\* from.
RECURSIVE dfp_dfs_from_source(_, _, _)
RECURSIVE dfp_for_from_source(_, _, _, _)
dfp_dfs_from_source(g, d, v) ==
    dfp_for_from_source(g, [d EXCEPT !.state[v] = VISITED], v, adj(g, v))

dfp_for_from_source(g, d, v, ws) ==
    IF ws = <<>> THEN d
    ELSE IF d.state[Head(ws)] = STATE_NEW
         THEN dfp_for_from_source(
                  g,
                  dfp_dfs_from_source(g, [d EXCEPT !.edge_to[Head(ws)] = d.source],
                                      Head(ws)),
                  v, Tail(ws))
         ELSE dfp_for_from_source(g, d, v, Tail(ws))

\* _dfs(graph, v) and its for loop over adj(v); ws is what is left of the
\* iteration.
RECURSIVE dfp_dfs(_, _, _)
RECURSIVE dfp_for(_, _, _, _)
dfp_dfs(g, d, v) == dfp_for(g, [d EXCEPT !.state[v] = VISITED], v, adj(g, v))

dfp_for(g, d, v, ws) ==
    IF ws = <<>> THEN d
    ELSE IF d.state[Head(ws)] = STATE_NEW
         THEN dfp_for(g,
                      dfp_dfs(g, [d EXCEPT !.edge_to[Head(ws)] = v], Head(ws)),
                      v, Tail(ws))
         ELSE dfp_for(g, d, v, Tail(ws))

\* DepthFirstPathsRecursive(graph, source)
DepthFirstPathsRecursive(g, source) ==
    dfp_dfs(g,
            [source  |-> source,
             state   |-> [v \in vertices(g) |-> STATE_NEW],
             edge_to |-> [v \in vertices(g) |-> 0]],
            source)

\* path_to(v): None, or the Stack it returns; the while loop is that of
\* BreadthFirstPaths.path_to.
dfp_path_to(d, v) ==
    IF d.state[v] # VISITED THEN NoPath
    ELSE [none  |-> FALSE,
          stack |-> stack_push(path_to_while(d, <<>>, v), d.source)]

DfpConstruct ==
    /\ pc = "build"
    /\ \E source \in vertices(GState) :
          dfp' = DepthFirstPathsRecursive(GState, source)
    /\ pc' = "done"
    /\ UNCHANGED <<g_vars, bfs, bfs_path, bfs_run, dfp_path, topo_vars, scc_vars>>
    /\ UNCHANGED <<iq_vars, hq_vars, uf_vars, gc_vars, mst_vars, sp_vars>>

DfpPathTo ==
    /\ pc = "done"
    /\ pc' = "read"
    /\ \E v \in vertices(GState) : dfp_path' = dfp_path_to(dfp, v)
    /\ UNCHANGED <<g_vars, bfs, bfs_path, bfs_run, dfp, topo_vars, scc_vars>>
    /\ UNCHANGED <<iq_vars, hq_vars, uf_vars, gc_vars, mst_vars, sp_vars>>

DfpNext ==
    \/ GraphAddEdge
    \/ DfpConstruct
    \/ DfpPathTo

-----------------------------------------------------------------------------
(* DiGraph.                                                                *)

\* An add_edge that puts the new neighbour in front of the list.
digraph_add_edge_in_front(g, v, w) ==
    [g EXCEPT !.adj[v] = <<w>> \o @, !.n_edges = @ + 1]

\* DiGraph.add_edge(v, w) on valid vertices.
digraph_add_edge(g, v, w) ==
    [g EXCEPT !.adj[v] = Append(@, w), !.n_edges = @ + 1]

\* DiGraph.reverse, the inner loop: an edge w -> v for every w of adj(v).
RECURSIVE reverse_for(_, _, _)
reverse_for(graph, v, ws) ==
    IF ws = <<>> THEN graph
    ELSE reverse_for(digraph_add_edge(graph, Head(ws), v), v, Tail(ws))

\* DiGraph.reverse, the outer loop over the vertices from v on.
RECURSIVE reverse_vertices(_, _, _)
reverse_vertices(other, graph, v) ==
    IF v >= other.n_vertices THEN graph
    ELSE reverse_vertices(other, reverse_for(graph, v, adj(other, v)), v + 1)

\* A reverse that copies every edge in its own direction.
reverse_forward(other) ==
    [n_vertices |-> other.n_vertices,
     n_edges    |-> other.n_edges,
     adj        |-> [v \in vertices(other) |-> adj(other, v)]]

\* DiGraph.reverse(other)
reverse(other) ==
    reverse_vertices(other,
                     [n_vertices |-> other.n_vertices,
                      n_edges    |-> 0,
                      adj        |-> [v \in vertices(other) |-> <<>>]],
                     0)

\* The build phase of a digraph: add_edge(v, w) for any two vertices, self
\* loops and parallel edges included.
DiGraphAddEdge ==
    /\ pc = "build"
    /\ g_n_edges < MaxArcs
    /\ \E v \in vertices(GState), w \in vertices(GState) :
          /\ vertex_is_valid(GState, v) /\ vertex_is_valid(GState, w)
          /\ GReturn(digraph_add_edge(GState, v, w))
    /\ UNCHANGED <<pc, bfs_vars, topo_vars, scc_vars>>
    /\ UNCHANGED <<iq_vars, hq_vars, uf_vars, gc_vars, mst_vars, sp_vars>>

-----------------------------------------------------------------------------
(* DepthFirstTopoSortRecursive.                                            *)

\* The object before its constructor has run.
NoTopo == [state |-> <<>>, vertices |-> <<>>]

\* A _dfs that pushes v before it visits v's neighbours.
RECURSIVE topo_dfs_preorder(_, _, _)
RECURSIVE topo_for_preorder(_, _, _)
topo_dfs_preorder(g, t, v) ==
    topo_for_preorder(g, [t EXCEPT !.state[v] = VISITED,
                                   !.vertices = stack_push(@, v)],
                      adj(g, v))

topo_for_preorder(g, t, ws) ==
    IF ws = <<>> THEN t
    ELSE IF t.state[Head(ws)] = STATE_NEW
         THEN topo_for_preorder(g, topo_dfs_preorder(g, t, Head(ws)), Tail(ws))
         ELSE topo_for_preorder(g, t, Tail(ws))

\* _dfs(graph, v) and its for loop over adj(v); ws is what is left of the
\* iteration.
RECURSIVE topo_dfs(_, _, _)
RECURSIVE topo_for(_, _, _)
topo_dfs(g, t, v) ==
    LET t1 == topo_for(g, [t EXCEPT !.state[v] = VISITED], adj(g, v))
    IN  [t1 EXCEPT !.vertices = stack_push(@, v)]

topo_for(g, t, ws) ==
    IF ws = <<>> THEN t
    ELSE IF t.state[Head(ws)] = STATE_NEW
         THEN topo_for(g, topo_dfs(g, t, Head(ws)), Tail(ws))
         ELSE topo_for(g, t, Tail(ws))

\* __init__, the loop over the vertices from v on.
RECURSIVE topo_vertices(_, _, _)
topo_vertices(g, t, v) ==
    IF v >= g.n_vertices THEN t
    ELSE IF t.state[v] = STATE_NEW
         THEN topo_vertices(g, topo_dfs(g, t, v), v + 1)
         ELSE topo_vertices(g, t, v + 1)

\* DepthFirstTopoSortRecursive(graph)
DepthFirstTopoSortRecursive(g) ==
    topo_vertices(g,
                  [state    |-> [v \in vertices(g) |-> STATE_NEW],
                   vertices |-> <<>>],
                  0)

\* __iter__: the ordered vertices
topo_iter(t) == stack_iter(t.vertices)

TopoConstruct ==
    /\ pc = "build"
    /\ topo' = DepthFirstTopoSortRecursive(GState)
    /\ pc' = "done"
    /\ UNCHANGED <<g_vars, bfs_vars, scc_vars>>
    /\ UNCHANGED <<iq_vars, hq_vars, uf_vars, gc_vars, mst_vars, sp_vars>>

\* Iterating the result, which changes nothing.
TopoIter ==
    /\ pc = "done"
    /\ topo_iter(topo) \in Seq(vertices(GState))
    /\ pc' = "read"
    /\ UNCHANGED <<g_vars, bfs_vars, topo_vars, scc_vars>>
    /\ UNCHANGED <<iq_vars, hq_vars, uf_vars, gc_vars, mst_vars, sp_vars>>

TopoNext ==
    \/ DiGraphAddEdge
    \/ TopoConstruct
    \/ TopoIter

-----------------------------------------------------------------------------
(* DepthFirstSCC.                                                          *)

\* The object before its constructor has run.
NoScc == [state |-> <<>>, id |-> <<>>, count |-> 0]

\* DepthFirstTopoSort(graph), of depth_first_toposort.py: the vertices in
\* reverse postorder of a depth first search.
DepthFirstTopoSort(g) == DepthFirstTopoSortRecursive(g)

\* _dfs, the for loop over adj(v): every new w is pushed.
RECURSIVE scc_for(_, _, _)
scc_for(c, S, ws) ==
    IF ws = <<>> THEN S
    ELSE IF c.state[Head(ws)] = STATE_NEW
         THEN scc_for(c, stack_push(S, Head(ws)), Tail(ws))
         ELSE scc_for(c, S, Tail(ws))

\* _dfs, the while loop over the stack.
RECURSIVE scc_while(_, _, _)
scc_while(g, c, S) ==
    IF S = <<>> THEN c
    ELSE LET v  == stack_top(S)
             c1 == [c EXCEPT !.state[v] = VISITED, !.id[v] = c.count]
         IN  scc_while(g, c1, scc_for(c1, stack_pop(S), adj(g, v)))

\* _dfs(graph, s)
scc_dfs(g, c, s) == scc_while(g, c, stack_push(<<>>, s))

\* __init__, the second pass over what is left of the order.
RECURSIVE scc_pass(_, _, _)
scc_pass(g, c, order) ==
    IF order = <<>> THEN c
    ELSE IF ~is_visited(c, Head(order))
         THEN scc_pass(g, [scc_dfs(g, c, Head(order)) EXCEPT !.count = @ + 1],
                       Tail(order))
         ELSE scc_pass(g, c, Tail(order))

\* DepthFirstSCC(graph)
DepthFirstSCC(g) ==
    scc_pass(g,
             [state |-> [v \in vertices(g) |-> STATE_NEW],
              id    |-> [v \in vertices(g) |-> numpy_inf],
              count |-> 0],
             topo_iter(DepthFirstTopoSort(reverse(g))))

\* connected(v, w)
scc_connected(c, v, w) == c.id[v] = c.id[w]

\* count()
scc_count(c) == c.count

SccConstruct ==
    /\ pc = "build"
    /\ scc' = DepthFirstSCC(GState)
    /\ pc' = "done"
    /\ UNCHANGED <<g_vars, bfs_vars, topo_vars>>
    /\ UNCHANGED <<iq_vars, hq_vars, uf_vars, gc_vars, mst_vars, sp_vars>>

\* connected(v, w) and count(), which change nothing.
SccQuery ==
    /\ pc = "done"
    /\ \A v \in vertices(GState), w \in vertices(GState) :
          scc_connected(scc, v, w) \in BOOLEAN
    /\ scc_count(scc) >= 0
    /\ pc' = "read"
    /\ UNCHANGED <<g_vars, bfs_vars, topo_vars, scc_vars>>
    /\ UNCHANGED <<iq_vars, hq_vars, uf_vars, gc_vars, mst_vars, sp_vars>>

SccNext ==
    \/ DiGraphAddEdge
    \/ SccConstruct
    \/ SccQuery

-----------------------------------------------------------------------------
(* GraphCycle (graph_cycle.py), on an undirected simple graph.  The        *)
(* constructor runs step by step: gc_s is the position of its loop over    *)
(* the vertices and gc_calls the calls of _dfs in progress, the innermost  *)
(* last, each with its vertex v and the neighbours its loop has not yet    *)
(* taken.                                                                  *)

NoCycle == [state |-> <<>>, edge_to |-> <<>>, cycle |-> <<>>]

has_cycle(c) == c.cycle # <<>>

cycle(c) ==
    IF ~has_cycle(c) THEN NoPath ELSE [none |-> FALSE, stack |-> c.cycle]

\* list[i] as Python reads it: a negative i counts from the end of the list.
py_item(list, i) ==
    IF i < 0 THEN list[i + Cardinality(DOMAIN list)] ELSE list[i]

\* while x != w: self._cycle.push(x); x = self._edge_to[x]
RECURSIVE cycle_while(_, _, _)
cycle_while(c, x, w) ==
    IF x # w
    THEN cycle_while([c EXCEPT !.cycle = stack_push(@, x)],
                     py_item(c.edge_to, x), w)
    ELSE c

\* A variant of cycle_push that leaves out the last push.
cycle_push_open(c, v, w) ==
    [cycle_while(c, v, w) EXCEPT !.cycle = stack_push(@, w)]

\* The cycle that the edge v - w closes: v, its ancestors up to w, w, and v.
cycle_push(c, v, w) ==
    [cycle_while(c, v, w) EXCEPT
        !.cycle = stack_push(stack_push(@, w), v)]

\* A variant of dfs_for that takes every visited neighbour, the parent of v
\* included, for the end of a cycle.
dfs_for_any_visited(c, v, w) ==
    IF c.state[w] = STATE_NEW
    THEN [c EXCEPT !.edge_to[w] = v]
    ELSE cycle_push(c, v, w)

\* One neighbour w of v in _dfs, after the short circuit and up to the
\* recursive call.
dfs_for(c, v, w) ==
    IF c.state[w] = STATE_NEW
    THEN [c EXCEPT !.edge_to[w] = v]
    ELSE IF w # c.edge_to[v]
    THEN cycle_push(c, v, w)
    ELSE c

\* The entry of _dfs(graph, v): v is marked, its loop is about to start.
dfs_enter(g, c, v) == [c EXCEPT !.state[v] = VISITED]

dfs_call(g, v) == [v |-> v, ws |-> adj(g, v)]

\* GraphCycle(graph) up to its loop over the vertices.
GcConstruct ==
    /\ pc = "build"
    /\ pc' = "ctor"
    /\ gc' = [state |-> [v \in vertices(GState) |-> STATE_NEW],
              edge_to |-> [v \in vertices(GState) |-> -1],
              cycle |-> <<>>]
    /\ gc_s' = 0
    /\ gc_calls' = <<>>
    /\ UNCHANGED <<g_vars, gc_cycle, gc_walk, bfs_vars, topo_vars, scc_vars>>
    /\ UNCHANGED <<iq_vars, hq_vars, uf_vars, mst_vars, sp_vars>>

\* One vertex s of the constructor's loop.
GcLoop ==
    /\ pc = "ctor"
    /\ gc_calls = <<>>
    /\ gc_s < g_n_vertices
    /\ gc_s' = gc_s + 1
    /\ IF gc.state[gc_s] = STATE_NEW
       THEN /\ gc' = dfs_enter(GState, gc, gc_s)
            /\ gc_calls' = <<dfs_call(GState, gc_s)>>
       ELSE UNCHANGED <<gc, gc_calls>>
    /\ UNCHANGED <<pc, g_vars, gc_cycle, gc_walk, bfs_vars, topo_vars, scc_vars>>
    /\ UNCHANGED <<iq_vars, hq_vars, uf_vars, mst_vars, sp_vars>>

\* One neighbour w of the loop of the innermost _dfs.
GcFor ==
    /\ pc = "ctor"
    /\ gc_calls # <<>>
    /\ stack_top(gc_calls).ws # <<>>
    /\ LET v == stack_top(gc_calls).v
           w == Head(stack_top(gc_calls).ws)
           rest == [stack_top(gc_calls) EXCEPT !.ws = Tail(@)]
       IN  IF has_cycle(gc)
           THEN /\ gc_calls' = stack_pop(gc_calls)
                /\ UNCHANGED gc
           ELSE IF gc.state[w] = STATE_NEW
           THEN /\ gc' = dfs_enter(GState, dfs_for(gc, v, w), w)
                /\ gc_calls' = stack_push(stack_push(stack_pop(gc_calls), rest),
                                          dfs_call(GState, w))
           ELSE /\ gc' = dfs_for(gc, v, w)
                /\ gc_calls' = stack_push(stack_pop(gc_calls), rest)
    /\ UNCHANGED <<pc, g_vars, gc_s, gc_cycle, gc_walk, bfs_vars, topo_vars, scc_vars>>
    /\ UNCHANGED <<iq_vars, hq_vars, uf_vars, mst_vars, sp_vars>>

\* The innermost _dfs returns at the end of its loop.
GcReturn ==
    /\ pc = "ctor"
    /\ gc_calls # <<>>
    /\ stack_top(gc_calls).ws = <<>>
    /\ gc_calls' = stack_pop(gc_calls)
    /\ UNCHANGED <<pc, g_vars, gc, gc_s, gc_cycle, gc_walk, bfs_vars, topo_vars, scc_vars>>
    /\ UNCHANGED <<iq_vars, hq_vars, uf_vars, mst_vars, sp_vars>>

\* The constructor returns.
GcDone ==
    /\ pc = "ctor"
    /\ gc_calls = <<>>
    /\ gc_s = g_n_vertices
    /\ pc' = "done"
    /\ UNCHANGED <<g_vars, gc_vars, bfs_vars, topo_vars, scc_vars>>
    /\ UNCHANGED <<iq_vars, hq_vars, uf_vars, mst_vars, sp_vars>>

\* cycle() on the constructed object.
GcCycle ==
    /\ pc = "done"
    /\ pc' = "read"
    /\ gc_cycle' = cycle(gc)
    /\ UNCHANGED <<g_vars, gc, gc_s, gc_calls, gc_walk, bfs_vars, topo_vars, scc_vars>>
    /\ UNCHANGED <<iq_vars, hq_vars, uf_vars, mst_vars, sp_vars>>

\* No walk in progress.
NoWalk == [x |-> 0, w |-> 0]

\* The build phase of any undirected graph: add_edge(v, w) between any two
\* vertices, self-loops and repeated edges included.
GraphAddAnyEdge ==
    /\ pc = "build"
    /\ g_n_edges < MaxEdges
    /\ \E v \in vertices(GState), w \in vertices(GState) :
          /\ vertex_is_valid(GState, v) /\ vertex_is_valid(GState, w)
          /\ v <= w
          /\ GReturn(graph_add_edge(GState, v, w))
    /\ UNCHANGED <<pc, bfs_vars, topo_vars, scc_vars>>
    /\ UNCHANGED <<iq_vars, hq_vars, uf_vars, gc_vars, mst_vars, sp_vars>>

\* One neighbour w of the loop of the innermost _dfs, up to the recursive
\* call or to the start of the walk x = v; while x != w.
GcForAny ==
    /\ pc = "ctor"
    /\ gc_calls # <<>>
    /\ stack_top(gc_calls).ws # <<>>
    /\ LET v == stack_top(gc_calls).v
           w == Head(stack_top(gc_calls).ws)
           rest == [stack_top(gc_calls) EXCEPT !.ws = Tail(@)]
       IN  IF has_cycle(gc)
           THEN /\ gc_calls' = stack_pop(gc_calls)
                /\ UNCHANGED <<pc, gc, gc_walk>>
           ELSE IF gc.state[w] = STATE_NEW
           THEN /\ gc' = dfs_enter(GState, [gc EXCEPT !.edge_to[w] = v], w)
                /\ gc_calls' = stack_push(stack_push(stack_pop(gc_calls), rest),
                                          dfs_call(GState, w))
                /\ UNCHANGED <<pc, gc_walk>>
           ELSE IF w # gc.edge_to[v]
           THEN /\ pc' = "walk"
                /\ gc_walk' = [x |-> v, w |-> w]
                /\ gc_calls' = stack_push(stack_pop(gc_calls), rest)
                /\ UNCHANGED gc
           ELSE /\ gc_calls' = stack_push(stack_pop(gc_calls), rest)
                /\ UNCHANGED <<pc, gc, gc_walk>>
    /\ UNCHANGED <<g_vars, gc_s, gc_cycle, bfs_vars, topo_vars, scc_vars>>
    /\ UNCHANGED <<iq_vars, hq_vars, uf_vars, mst_vars, sp_vars>>

\* One test of while x != w, with its body or, at x == w, with the two
\* pushes after the loop.  The walk is followed up to MaxWalk vertices.
GcWalk ==
    /\ pc = "walk"
    /\ IF gc_walk.x # gc_walk.w
       THEN /\ Len(gc.cycle) < MaxWalk
            /\ gc' = [gc EXCEPT !.cycle = stack_push(@, gc_walk.x)]
            /\ gc_walk' = [gc_walk EXCEPT !.x = py_item(gc.edge_to, gc_walk.x)]
            /\ UNCHANGED pc
       ELSE /\ gc' = [gc EXCEPT !.cycle = stack_push(stack_push(@, gc_walk.w),
                                                     stack_top(gc_calls).v)]
            /\ gc_walk' = NoWalk
            /\ pc' = "ctor"
    /\ UNCHANGED <<g_vars, gc_s, gc_calls, gc_cycle, bfs_vars, topo_vars, scc_vars>>
    /\ UNCHANGED <<iq_vars, hq_vars, uf_vars, mst_vars, sp_vars>>

GcAnyNext ==
    \/ GraphAddAnyEdge
    \/ GcConstruct
    \/ GcLoop
    \/ GcForAny
    \/ GcWalk
    \/ GcReturn
    \/ GcDone
    \/ GcCycle

GcNext ==
    \/ GraphAddEdge
    \/ GcConstruct
    \/ GcLoop
    \/ GcFor
    \/ GcReturn
    \/ GcDone
    \/ GcCycle

-----------------------------------------------------------------------------
(* Weighted undirected graphs.  Edge(v, w, weight) is kept as one integer, *)
(* weight * 100 + v * 10 + w, so that it can be a key of PriorityQueue;    *)
(* weights are in tenths (3, 5 and 10 for 0.3, 0.5 and 1.0).  An Edge      *)
(* compares by weight only, as DiEdge does.  EdgeWeightedGraph keeps an    *)
(* edge in the lists of both its endpoints and edges() gives every edge    *)
(* once.                                                                   *)

Weights == {3, 5, 10}

Edge(v, w, weight) == weight * 100 + v * 10 + w

edge_first(e) == (e % 100) \div 10

edge_second(e) == e % 10

edge_weight(e) == e \div 100

edge_other(e, v) == IF v = edge_first(e) THEN edge_second(e) ELSE edge_first(e)

\* EdgeWeightedGraph.add_edge(edge) on valid vertices.
wgraph_add_edge(g, e) ==
    [g EXCEPT !.adj[edge_first(e)] = Append(@, e),
              !.adj[edge_second(e)] = Append(@, e),
              !.n_edges = @ + 1]

\* EdgeWeightedGraph.edges(): the edges of adj(v) that lead to a vertex
\* above v, for v = 0, 1, ...
RECURSIVE wgraph_edges_from(_, _)
wgraph_edges_from(g, v) ==
    IF v >= g.n_vertices THEN <<>>
    ELSE SelectSeq(adj(g, v), LAMBDA e : edge_other(e, v) > v)
            \o wgraph_edges_from(g, v + 1)

wgraph_edges(g) == wgraph_edges_from(g, 0)

\* EdgeWeightedGraph(n_vertices)
WInit ==
    /\ pc = "build"
    /\ g_n_vertices \in 1..MaxWVertices
    /\ g_n_edges = 0
    /\ g_adj = [v \in 0..(g_n_vertices - 1) |-> <<>>]

\* The build phase of a weighted graph: one add_edge(Edge(v, w, weight))
\* per edge of an edge list sorted by endpoints, parallel edges included.
WGraphAddEdge ==
    /\ pc = "build"
    /\ g_n_edges < MaxWEdges
    /\ \E v \in vertices(GState), w \in vertices(GState), x \in Weights :
          /\ vertex_is_valid(GState, v) /\ vertex_is_valid(GState, w)
          /\ v < w
          /\ \A u \in vertices(GState) : \A i \in 1..Len(g_adj[u]) :
                edge_first(g_adj[u][i]) * 10 + edge_second(g_adj[u][i])
                   <= v * 10 + w
          /\ GReturn(wgraph_add_edge(GState, Edge(v, w, x)))
    /\ UNCHANGED <<pc, bfs_vars, topo_vars, scc_vars, gc_vars, mst_vars, sp_vars>>
    /\ UNCHANGED <<iq_vars, hq_vars, uf_vars>>

-----------------------------------------------------------------------------
(* MstKruskal (mst_kruskal.py).  Its _pq is the PriorityQueue of the hq_   *)
(* variables and its _uf the UnionFind of the uf_ variables; the           *)
(* constructor runs step by step: one push per edge, then one iteration of *)
(* its while loop per step.                                                *)

\* weight(): the sum of the weights of the edges of _mst.
RECURSIVE mst_weight(_)
mst_weight(mst) ==
    IF mst = <<>> THEN 0 ELSE edge_weight(Head(mst)) + mst_weight(Tail(mst))

\* MstKruskal(graph) up to its loop over graph.edges(): _mst, _uf and _pq
\* are created; PriorityQueue(0, ...) fails its assertion.
KruskalConstruct ==
    /\ pc = "build"
    /\ kr_mst' = <<>>
    /\ uf_n_keys' = g_n_vertices
    /\ uf_n_sets' = g_n_vertices
    /\ uf_parent' = [i \in 0..(g_n_vertices - 1) |-> i]
    /\ uf_size' = [i \in 0..(g_n_vertices - 1) |-> 1]
    /\ uf_raised' = "none"
    /\ uf_linked' = [i \in 0..(g_n_vertices - 1) |-> {i}]
    /\ IF g_n_edges > 0
       THEN /\ hq_capacity' = g_n_edges
            /\ hq_compare' = "edge_lt"
            /\ hq_count' = 0
            /\ hq_pq' = [c \in 0..g_n_edges |-> None]
            /\ hq_raised' = "none"
            /\ kr_edges' = wgraph_edges(GState)
            /\ pc' = "push"
       ELSE /\ hq_raised' = "AssertionError"
            /\ pc' = "raised"
            /\ UNCHANGED <<hq_capacity, hq_compare, hq_count, hq_pq, kr_edges>>
    /\ UNCHANGED <<g_vars, prim_lazy, prim_eager>>
    /\ UNCHANGED <<iq_vars, bfs_vars, topo_vars, scc_vars, gc_vars, sp_vars>>

\* for edge in graph.edges(): self._pq.push(edge)
KruskalPush ==
    /\ pc = "push"
    /\ LET r == heap_push(HqState, Head(kr_edges))
       IN  /\ hq_capacity' = r.q.capacity
           /\ hq_count' = r.q.count
           /\ hq_pq' = r.q.pq
           /\ hq_raised' = r.err
           /\ kr_edges' = Tail(kr_edges)
           /\ pc' = IF r.err # "none" THEN "raised"
                    ELSE IF Tail(kr_edges) = <<>> THEN "loop"
                    ELSE "push"
    /\ UNCHANGED <<hq_compare, g_vars, kr_mst, prim_lazy, prim_eager>>
    /\ UNCHANGED <<iq_vars, uf_vars, bfs_vars, topo_vars, scc_vars, gc_vars, sp_vars>>

\* The condition of the while loop.
kruskal_while(h, mst, n_vertices) == h.count # 0 /\ Len(mst) < n_vertices - 1

\* A variant of kruskal_body that keeps the popped edge whether or not its
\* ends are connected.
kruskal_body_keeps_all(u, mst, edge) ==
    LET j == join(u, edge_first(edge), edge_second(edge))
    IN  [uf |-> j.q, err |-> j.err, mst |-> Append(mst, edge), joined |-> TRUE]

\* The body of the while loop after the pop: connected(v, w), and if it is
\* false join(v, w) and _mst.append(edge).
kruskal_body(u, mst, edge) ==
    LET v == edge_first(edge)
        w == edge_second(edge)
        c == connected(u, v, w)
    IN  IF c.err # "none"
        THEN [uf |-> c.q, err |-> c.err, mst |-> mst, joined |-> FALSE]
        ELSE IF c.ret
        THEN [uf |-> c.q, err |-> "none", mst |-> mst, joined |-> FALSE]
        ELSE LET j == join(c.q, v, w)
             IN  IF j.err # "none"
                 THEN [uf |-> j.q, err |-> j.err, mst |-> mst, joined |-> FALSE]
                 ELSE [uf |-> j.q, err |-> "none", mst |-> Append(mst, edge),
                       joined |-> TRUE]

\* One iteration of the while loop: top(), pop(), and the body.
kruskal_iteration(h, u, mst) ==
    LET edge == heap_top(h)
        r == heap_pop(h)
        b == kruskal_body(u, mst, edge)
    IN  IF r.err # "none"
        THEN [pq |-> r.q, pq_err |-> r.err, uf |-> u, uf_err |-> "none",
              mst |-> mst, edge |-> edge, joined |-> FALSE]
        ELSE [pq |-> r.q, pq_err |-> "none", uf |-> b.uf, uf_err |-> b.err,
              mst |-> b.mst, edge |-> edge, joined |-> b.joined]

KruskalLoop ==
    /\ pc = "loop"
    /\ kruskal_while(HqState, kr_mst, g_n_vertices)
    /\ \E k \in {kruskal_iteration(HqState, UfState, kr_mst)} :
          /\ hq_capacity' = k.pq.capacity
          /\ hq_count' = k.pq.count
          /\ hq_pq' = k.pq.pq
          /\ hq_raised' = k.pq_err
          /\ uf_n_sets' = k.uf.n_sets
          /\ uf_parent' = k.uf.parent
          /\ uf_size' = k.uf.size
          /\ uf_raised' = k.uf_err
          /\ uf_linked' = IF k.joined
                          THEN Link(uf_linked, edge_first(k.edge),
                                    edge_second(k.edge))
                          ELSE uf_linked
          /\ kr_mst' = k.mst
          /\ pc' = IF k.pq_err # "none" \/ k.uf_err # "none"
                   THEN "raised" ELSE "loop"
    /\ UNCHANGED <<uf_n_keys, hq_compare, g_vars, kr_edges, prim_lazy, prim_eager>>
    /\ UNCHANGED <<iq_vars, bfs_vars, topo_vars, scc_vars, gc_vars, sp_vars>>

\* The while loop ends and the constructor returns.
KruskalReturn ==
    /\ pc = "loop"
    /\ ~kruskal_while(HqState, kr_mst, g_n_vertices)
    /\ pc' = "kruskal"
    /\ UNCHANGED <<g_vars, mst_vars>>
    /\ UNCHANGED <<iq_vars, hq_vars, uf_vars, bfs_vars, topo_vars, scc_vars, gc_vars, sp_vars>>

-----------------------------------------------------------------------------
(* MstPrimLazy (mst_prim_lazy.py).  Its _pq is the PriorityQueue of the    *)
(* hq_ variables; while the constructor runs the queue is the field pq of  *)
(* the record.                                                             *)

NoPrimLazy == [mst |-> <<>>, state |-> <<>>, err |-> "none"]

lazy_is_visited(p, v) == p.state[v] = VISITED

\* _visit: for edge in graph.adj(v)
RECURSIVE lazy_visit_for(_, _, _)
lazy_visit_for(p, v, es) ==
    IF es = <<>> \/ p.err # "none" THEN p
    ELSE IF ~lazy_is_visited(p, edge_other(Head(es), v))
    THEN LET r == heap_push(p.pq, Head(es))
         IN  lazy_visit_for([p EXCEPT !.pq = r.q, !.err = r.err], v, Tail(es))
    ELSE lazy_visit_for(p, v, Tail(es))

\* _visit(graph, v)
lazy_visit(g, p, v) ==
    lazy_visit_for([p EXCEPT !.state[v] = VISITED], v, adj(g, v))

\* One iteration of the while loop after top and pop: edge is the popped
\* edge.
lazy_iteration(g, p, edge) ==
    IF p.err # "none" THEN p
    ELSE IF lazy_is_visited(p, edge_first(edge))
            /\ lazy_is_visited(p, edge_second(edge)) THEN p
    ELSE LET p3 == IF ~lazy_is_visited(p, edge_first(edge))
                   THEN lazy_visit(g, [p EXCEPT !.mst = Append(@, edge)],
                                   edge_first(edge))
                   ELSE [p EXCEPT !.mst = Append(@, edge)]
         IN  IF p3.err = "none" /\ ~lazy_is_visited(p3, edge_second(edge))
             THEN lazy_visit(g, p3, edge_second(edge)) ELSE p3

\* The object and its queue after a step of the constructor.
LazyReturn(p) ==
    /\ prim_lazy' = [mst |-> p.mst, state |-> p.state, err |-> p.err]
    /\ hq_capacity' = p.pq.capacity
    /\ hq_count' = p.pq.count
    /\ hq_pq' = p.pq.pq
    /\ hq_raised' = p.err
    /\ pc' = IF p.err # "none" THEN "raised" ELSE "lazy_loop"
    /\ UNCHANGED <<hq_compare, g_vars, kr_mst, kr_edges, prim_eager>>
    /\ UNCHANGED <<iq_vars, uf_vars, bfs_vars, topo_vars, scc_vars, gc_vars, sp_vars>>

\* MstPrimLazy(graph) up to _visit(graph, 0): _mst, _pq and _state are
\* created; PriorityQueue(0, ...) fails its assertion.  The client calls it
\* when MstKruskal(graph) has returned, or has failed on PriorityQueue(0, ...)
\* for want of edges.
PrimLazyConstruct ==
    /\ \/ pc = "kruskal"
       \/ pc = "raised" /\ g_n_edges = 0 /\ prim_lazy = NoPrimLazy
    /\ IF g_n_edges > 0
       THEN /\ pc' = "lazy"
            /\ prim_lazy' = [mst |-> <<>>,
                             state |-> [v \in vertices(GState) |-> STATE_NEW],
                             err |-> "none"]
            /\ hq_capacity' = g_n_edges
            /\ hq_compare' = "edge_lt"
            /\ hq_count' = 0
            /\ hq_pq' = [c \in 0..g_n_edges |-> None]
            /\ hq_raised' = "none"
       ELSE /\ pc' = "raised"
            /\ prim_lazy' = [NoPrimLazy EXCEPT !.err = "AssertionError"]
            /\ hq_raised' = "AssertionError"
            /\ UNCHANGED <<hq_capacity, hq_compare, hq_count, hq_pq>>
    /\ UNCHANGED <<g_vars, kr_mst, kr_edges, prim_eager>>
    /\ UNCHANGED <<iq_vars, uf_vars, bfs_vars, topo_vars, scc_vars, gc_vars, sp_vars>>

\* self._visit(graph, 0)
PrimLazyVisit ==
    /\ pc = "lazy"
    /\ \E p \in {lazy_visit(GState,
                    [mst |-> prim_lazy.mst, state |-> prim_lazy.state,
                     err |-> "none", pq |-> HqState], 0)} : LazyReturn(p)

\* One iteration of the while loop.
PrimLazyLoop ==
    /\ pc = "lazy_loop"
    /\ hq_count # 0
    /\ \E r \in {heap_pop(HqState)} :
       \E p \in {lazy_iteration(GState,
                    [mst |-> prim_lazy.mst, state |-> prim_lazy.state,
                     err |-> r.err, pq |-> r.q], heap_top(HqState))} :
          LazyReturn(p)

\* The while loop ends: the queue is empty.
PrimLazyReturn ==
    /\ pc = "lazy_loop"
    /\ hq_count = 0
    /\ pc' = "lazy_done"
    /\ UNCHANGED <<g_vars, mst_vars>>
    /\ UNCHANGED <<iq_vars, hq_vars, uf_vars, bfs_vars, topo_vars, scc_vars, gc_vars, sp_vars>>

-----------------------------------------------------------------------------
(* MstPrimEager (mst_prim_eager.py).  Its _pq is the PriorityIndexQueue of *)
(* the iq_ variables, the keys being the weights in _dist_to.              *)

NoPrimEager ==
    [mst |-> <<>>, state |-> <<>>, edge_to |-> <<>>, dist_to |-> <<>>,
     err |-> "none"]

eager_is_visited(p, v) == p.state[v] = VISITED

\* if self._pq.contains(w): change(w, key) else: push(w, key)
eager_update(q, w, key) ==
    IF contains_err(w) # "none" THEN Raise(q, contains_err(w))
    ELSE IF contains(q, w) THEN change(q, w, key)
    ELSE push(q, w, key)

\* _visit: for edge in graph.adj(v)
RECURSIVE eager_visit_for(_, _, _)
eager_visit_for(p, v, es) ==
    IF es = <<>> \/ p.err # "none" THEN p
    ELSE LET edge == Head(es)
             w == edge_other(edge, v)
         IN  IF eager_is_visited(p, w) THEN eager_visit_for(p, v, Tail(es))
             ELSE IF edge_weight(edge) < p.dist_to[w]
             THEN LET r == eager_update(p.pq, w, edge_weight(edge))
                  IN  eager_visit_for(
                          [p EXCEPT !.edge_to[w] = edge,
                                    !.dist_to[w] = edge_weight(edge),
                                    !.pq = r.q, !.err = r.err],
                          v, Tail(es))
             ELSE eager_visit_for(p, v, Tail(es))

\* _visit(graph, v)
eager_visit(g, p, v) ==
    eager_visit_for([p EXCEPT !.state[v] = VISITED], v, adj(g, v))

\* The object and its queue after a step of the constructor.
EagerReturn(p) ==
    /\ prim_eager' = [mst |-> <<>>, state |-> p.state, edge_to |-> p.edge_to,
                      dist_to |-> p.dist_to, err |-> p.err]
    /\ iq_count' = p.pq.count
    /\ iq_keys' = p.pq.keys
    /\ iq_pq' = p.pq.pq
    /\ iq_qp' = p.pq.qp
    /\ iq_raised' = p.err
    /\ iq_allok' = (p.err = "none")
    /\ pc' = IF p.err # "none" THEN "raised" ELSE "eager_loop"
    /\ UNCHANGED <<iq_capacity, iq_compare, iq_domain>>
    /\ UNCHANGED <<g_vars, kr_mst, kr_edges, prim_lazy>>
    /\ UNCHANGED <<hq_vars, uf_vars, bfs_vars, topo_vars, scc_vars, gc_vars, sp_vars>>

\* MstPrimEager(graph) up to the first push: _state, _edge_to, _dist_to and
\* _pq are created.
PrimEagerConstruct ==
    /\ pc = "lazy_done"
    /\ pc' = "eager"
    /\ prim_eager' = [mst |-> <<>>,
                      state |-> [v \in vertices(GState) |-> STATE_NEW],
                      edge_to |-> [v \in vertices(GState) |-> None],
                      dist_to |-> [v \in vertices(GState) |-> numpy_inf],
                      err |-> "none"]
    /\ iq_capacity' = g_n_vertices
    /\ iq_compare' = "lt"
    /\ iq_count' = 0
    /\ iq_keys' = [c \in 0..g_n_vertices |-> None]
    /\ iq_pq' = [c \in 0..g_n_vertices |-> NoIndex]
    /\ iq_qp' = [c \in 0..g_n_vertices |-> -1]
    /\ iq_raised' = "none"
    /\ iq_allok' = TRUE
    /\ iq_domain' = Weights \cup {0}
    /\ UNCHANGED <<g_vars, kr_mst, kr_edges, prim_lazy>>
    /\ UNCHANGED <<hq_vars, uf_vars, bfs_vars, topo_vars, scc_vars, gc_vars, sp_vars>>

\* self._dist_to[0] = 0.0; self._pq.push(0, 0.0)
PrimEagerPush ==
    /\ pc = "eager"
    /\ \E r \in {push(IqState, 0, 0)} :
          EagerReturn([state |-> prim_eager.state,
                       edge_to |-> prim_eager.edge_to,
                       dist_to |-> [prim_eager.dist_to EXCEPT ![0] = 0],
                       err |-> r.err, pq |-> r.q])

\* One iteration of the while loop: top_ix, pop and _visit.
PrimEagerLoop ==
    /\ pc = "eager_loop"
    /\ iq_count # 0
    /\ \E r \in {pop(IqState)} :
       \E p \in {IF r.err # "none"
                 THEN [state |-> prim_eager.state,
                       edge_to |-> prim_eager.edge_to,
                       dist_to |-> prim_eager.dist_to,
                       err |-> r.err, pq |-> r.q]
                 ELSE eager_visit(GState,
                         [state |-> prim_eager.state,
                          edge_to |-> prim_eager.edge_to,
                          dist_to |-> prim_eager.dist_to,
                          err |-> "none", pq |-> r.q],
                         top_ix(IqState))} :
          EagerReturn(p)

\* The while loop ends: _mst = [_edge_to[v] for v = 1, 2, ...].
PrimEagerReturn ==
    /\ pc = "eager_loop"
    /\ iq_count = 0
    /\ pc' = "done"
    /\ prim_eager' = [prim_eager EXCEPT
                        !.mst = [i \in 1..(g_n_vertices - 1) |->
                                   prim_eager.edge_to[i]]]
    /\ UNCHANGED <<g_vars, kr_mst, kr_edges, prim_lazy>>
    /\ UNCHANGED <<iq_vars, hq_vars, uf_vars, bfs_vars, topo_vars, scc_vars, gc_vars, sp_vars>>

MstNext ==
    \/ WGraphAddEdge
    \/ KruskalConstruct
    \/ KruskalPush
    \/ KruskalLoop
    \/ KruskalReturn
    \/ PrimLazyConstruct
    \/ PrimLazyVisit
    \/ PrimLazyLoop
    \/ PrimLazyReturn
    \/ PrimEagerConstruct
    \/ PrimEagerPush
    \/ PrimEagerLoop
    \/ PrimEagerReturn

-----------------------------------------------------------------------------
(* Weighted digraphs (ds/edge_weighted_digraph.py).  DiEdge(v, w, weight)  *)
(* is kept as one integer, weight * 100 + v * 10 + w, with integer         *)
(* weights; a DiEdge compares by weight only.  EdgeWeightedDiGraph keeps   *)
(* v -> w in v's list, adj(v) iterates the list reversed and edges() is    *)
(* adj(0), adj(1), ... one after the other.                                *)

DiWeights == {0 - 1, 0, 1, 3}

DiEdge(v, w, weight) == weight * 100 + v * 10 + w

from_vertex(e) == (e % 100) \div 10

to_vertex(e) == e % 10

diedge_weight(e) == e \div 100

\* EdgeWeightedDiGraph.add_edge(edge) on valid vertices.
wdigraph_add_edge(g, e) ==
    [g EXCEPT !.adj[from_vertex(e)] = Append(@, e), !.n_edges = @ + 1]

\* EdgeWeightedDiGraph.edges()
RECURSIVE wdigraph_edges_from(_, _)
wdigraph_edges_from(g, v) ==
    IF v >= g.n_vertices THEN <<>>
    ELSE adj(g, v) \o wdigraph_edges_from(g, v + 1)

wdigraph_edges(g) == wdigraph_edges_from(g, 0)

\* EdgeWeightedDiGraph(n_vertices)
WDiInit ==
    /\ pc = "build"
    /\ g_n_vertices \in 1..MaxWVertices
    /\ g_n_edges = 0
    /\ g_adj = [v \in 0..(g_n_vertices - 1) |-> <<>>]

\* The build phase of a weighted digraph: one add_edge(DiEdge(v, w, weight))
\* per edge of an edge list sorted by endpoints, no edge twice and no loop.
WDiGraphAddEdge ==
    /\ pc = "build"
    /\ g_n_edges < MaxWEdges
    /\ \E v \in vertices(GState), w \in vertices(GState), x \in DiWeights :
          /\ vertex_is_valid(GState, v) /\ vertex_is_valid(GState, w)
          /\ v # w
          /\ \A u \in vertices(GState) : \A i \in 1..Len(g_adj[u]) :
                from_vertex(g_adj[u][i]) * 10 + to_vertex(g_adj[u][i])
                   < v * 10 + w
          /\ GReturn(wdigraph_add_edge(GState, DiEdge(v, w, x)))
    /\ UNCHANGED <<pc, bfs_vars, topo_vars, scc_vars, gc_vars, mst_vars, sp_vars>>
    /\ UNCHANGED <<iq_vars, hq_vars, uf_vars>>

-----------------------------------------------------------------------------
(* DiGraph and EdgeWeightedDiGraph under a client of their own, which      *)
(* calls add_edge with any endpoints, valid or not, until MaxDgCalls calls *)
(* have returned.  pc names the class.                                     *)
(* A call is <<v, w>> on a DiGraph and <<v, w, weight>> on an              *)
(* EdgeWeightedDiGraph.                                                    *)

\* DiGraph(n_vertices) or EdgeWeightedDiGraph(n_vertices)
DgInit ==
    /\ pc \in {"DiGraph", "EdgeWeightedDiGraph"}
    /\ g_n_vertices \in 0..MaxDgVertices
    /\ g_n_edges = 0
    /\ g_adj = [v \in 0..(g_n_vertices - 1) |-> <<>>]

\* The endpoints a call may name: one below and one above the valid ones.
DgEndpoints == (0 - 1)..g_n_vertices

\* The assertion of add_edge fails: nothing was changed.
DgRaise(call) ==
    /\ dg_call' = call
    /\ dg_raised' = "AssertionError"
    /\ UNCHANGED <<g_n_vertices, g_n_edges, g_adj, dg_added, dg_copy>>

\* add_edge has returned.
DgReturn(call, g) ==
    /\ dg_call' = call
    /\ dg_raised' = "none"
    /\ dg_added' = Append(dg_added, call)
    /\ UNCHANGED dg_copy
    /\ g_n_vertices' = g.n_vertices
    /\ g_n_edges' = g.n_edges
    /\ g_adj' = g.adj

\* DiGraph.add_edge(v, w)
DgAddEdge ==
    /\ pc = "DiGraph"
    /\ \E v \in DgEndpoints, w \in DgEndpoints :
          IF ~(vertex_is_valid(GState, v) /\ vertex_is_valid(GState, w))
          THEN DgRaise(<<v, w>>)
          ELSE /\ g_n_edges < MaxDgCalls
               /\ DgReturn(<<v, w>>, digraph_add_edge(GState, v, w))
    /\ UNCHANGED <<pc, bfs_vars, topo_vars, scc_vars, gc_vars, mst_vars, sp_vars>>
    /\ UNCHANGED <<iq_vars, hq_vars, uf_vars>>

\* EdgeWeightedDiGraph.add_edge(DiEdge(v, w, weight)), with two weights
\* for the edges that are stored.
WDgAddEdge ==
    /\ pc = "EdgeWeightedDiGraph"
    /\ \E v \in DgEndpoints, w \in DgEndpoints, x \in {1, 3} :
          IF ~(vertex_is_valid(GState, v) /\ vertex_is_valid(GState, w))
          THEN x = 1 /\ DgRaise(<<v, w, x>>)
          ELSE /\ g_n_edges < MaxDgCalls
               /\ DgReturn(<<v, w, x>>,
                           wdigraph_add_edge(GState, DiEdge(v, w, x)))
    /\ UNCHANGED <<pc, bfs_vars, topo_vars, scc_vars, gc_vars, mst_vars, sp_vars>>
    /\ UNCHANGED <<iq_vars, hq_vars, uf_vars>>

DgNext ==
    \/ DgAddEdge
    \/ WDgAddEdge

\* from_graph(other), of DiGraph and of EdgeWeightedDiGraph alike: the new
\* graph's _adj[v] is the list of what other.adj(v) yields.
from_graph(other) ==
    [n_vertices |-> other.n_vertices,
     n_edges    |-> other.n_edges,
     adj        |-> [v \in vertices(other) |-> adj(other, v)]]

\* The client copies its graph, once.
DgFromGraph ==
    /\ pc \in {"DiGraph", "EdgeWeightedDiGraph"}
    /\ dg_copy = NoGraph
    /\ dg_copy' = from_graph(GState)
    /\ UNCHANGED <<g_n_vertices, g_n_edges, g_adj, dg_call, dg_raised, dg_added>>
    /\ UNCHANGED <<pc, bfs_vars, topo_vars, scc_vars, gc_vars, mst_vars, sp_vars>>
    /\ UNCHANGED <<iq_vars, hq_vars, uf_vars>>

DgCopyNext ==
    \/ DgAddEdge
    \/ WDgAddEdge
    \/ DgFromGraph

-----------------------------------------------------------------------------
(* PathDijkstra (path_dijkstra.py).  Its _pq is the PriorityQueue of the   *)
(* hq_ variables; inside an operator the queue is the field pq of the      *)
(* record.  Pair(edge, weight) is kept as one integer,                     *)
(* weight * 10000 + edge, and compares by weight only.  The constructor    *)
(* runs step by step: one iteration of its while loop per step.            *)

Pair(edge, weight) == weight * 10000 + edge

pair_edge(p) == p % 10000

pair_weight(p) == p \div 10000

NoDijkstra ==
    [source |-> 0, state |-> <<>>, dist_to |-> <<>>, edge_to |-> <<>>,
     err |-> "none"]

\* No path_to(v) yet.
NoSpPath == [v |-> 0, none |-> TRUE, stack |-> <<>>, loops |-> FALSE]

sp_is_valid(p, v) == v >= 0 /\ v < Len(p.dist_to)

sp_is_visited(p, v) == p.state[v] = VISITED

sp_dist_to(p, v) == p.dist_to[v]

has_path_to(p, v) == p.dist_to[v] < numpy_inf

\* for edge in graph.edges(): assert edge.weight() >= 0, without the
\* assertion.
assert_weights_skipped(g) == TRUE

\* for edge in graph.edges(): assert edge.weight() >= 0.  TRUE when no
\* assertion fails.
assert_weights(g) ==
    \A i \in 1..Len(wdigraph_edges(g)) : diedge_weight(wdigraph_edges(g)[i]) >= 0

\* path_to, the while loop: e is the edge at hand, path the Stack.  An edge
\* that comes back is a loop that never ends.
RECURSIVE sp_path_to_while(_, _, _)
sp_path_to_while(p, path, e) ==
    IF e = None THEN [stack |-> path, loops |-> FALSE]
    ELSE IF \E i \in 1..Len(path) : path[i] = e
    THEN [stack |-> path, loops |-> TRUE]
    ELSE sp_path_to_while(p, stack_push(path, e), p.edge_to[from_vertex(e)])

\* A path_to whose loop is an if: it stops after the first edge.
sp_path_to_one_edge(p, v) ==
    IF ~has_path_to(p, v)
    THEN [v |-> v, none |-> TRUE, stack |-> <<>>, loops |-> FALSE]
    ELSE [v |-> v, none |-> FALSE,
          stack |-> IF p.edge_to[v] = None THEN <<>>
                    ELSE stack_push(<<>>, p.edge_to[v]),
          loops |-> FALSE]

\* path_to(v) on a valid vertex: None, or the Stack it returns.
sp_path_to(p, v) ==
    IF ~has_path_to(p, v)
    THEN [v |-> v, none |-> TRUE, stack |-> <<>>, loops |-> FALSE]
    ELSE [v |-> v, none |-> FALSE,
          stack |-> sp_path_to_while(p, <<>>, p.edge_to[v]).stack,
          loops |-> sp_path_to_while(p, <<>>, p.edge_to[v]).loops]

\* _relax: for edge in graph.adj(v), every edge taken whatever _dist_to is.
RECURSIVE relax_for_every_edge(_, _, _)
relax_for_every_edge(p, v, es) ==
    IF es = <<>> \/ p.err # "none" THEN p
    ELSE LET edge == Head(es)
             w    == to_vertex(edge)
             d    == p.dist_to[v] + diedge_weight(edge)
             r    == heap_push(p.pq, Pair(edge, d))
         IN  relax_for_every_edge([p EXCEPT !.dist_to[w] = d,
                                            !.edge_to[w] = edge,
                                            !.pq = r.q, !.err = r.err],
                                  v, Tail(es))

\* _relax: for edge in graph.adj(v)
RECURSIVE relax_for(_, _, _)
relax_for(p, v, es) ==
    IF es = <<>> \/ p.err # "none" THEN p
    ELSE LET edge == Head(es)
             w    == to_vertex(edge)
             d    == p.dist_to[v] + diedge_weight(edge)
         IN  IF p.dist_to[w] > d
             THEN LET r == heap_push(p.pq, Pair(edge, d))
                  IN  relax_for([p EXCEPT !.dist_to[w] = d,
                                          !.edge_to[w] = edge,
                                          !.pq = r.q, !.err = r.err],
                                v, Tail(es))
             ELSE relax_for(p, v, Tail(es))

\* _relax(graph, v)
_relax(g, p, v) == relax_for([p EXCEPT !.state[v] = VISITED], v, adj(g, v))

\* A variant of the iteration that records the popped pair for the edge's
\* end, visited or not, before it relaxes it.
sp_iteration_records_pair(g, p) ==
    LET pair == heap_top(p.pq)
        r    == heap_pop(p.pq)
        w    == to_vertex(pair_edge(pair))
        p1   == [p EXCEPT !.pq = r.q, !.err = r.err,
                          !.dist_to[w] = pair_weight(pair),
                          !.edge_to[w] = pair_edge(pair)]
    IN  IF r.err # "none" THEN p1
        ELSE _relax(g, p1, w)

\* One iteration of the while loop: top, pop and the relaxation of the
\* edge's end when it is not yet visited.
sp_iteration(g, p) ==
    LET pair == heap_top(p.pq)
        r    == heap_pop(p.pq)
        p1   == [p EXCEPT !.pq = r.q, !.err = r.err]
        w    == to_vertex(pair_edge(pair))
    IN  IF r.err # "none" THEN p1
        ELSE IF ~sp_is_visited(p1, w) THEN _relax(g, p1, w)
        ELSE p1

\* The object and its queue after a step of the constructor.
SpReturn(p) ==
    /\ sp' = [source |-> p.source, state |-> p.state, dist_to |-> p.dist_to,
              edge_to |-> p.edge_to, err |-> p.err]
    /\ hq_capacity' = p.pq.capacity
    /\ hq_count' = p.pq.count
    /\ hq_pq' = p.pq.pq
    /\ hq_raised' = p.err
    /\ pc' = IF p.err # "none" THEN "raised" ELSE "relax"
    /\ UNCHANGED sp_path

\* PathDijkstra(graph, src) up to the queue: the assertion on the weights,
\* the fields and the queue.
DijkstraConstruct ==
    /\ pc = "build"
    /\ \E src \in vertices(GState) :
          IF ~assert_weights(GState)
          THEN /\ sp' = [NoDijkstra EXCEPT !.source = src,
                                           !.err = "AssertionError"]
               /\ pc' = "raised"
               /\ UNCHANGED hq_vars
          ELSE /\ sp' = [source |-> src,
                         state |-> [v \in vertices(GState) |-> STATE_NEW],
                         dist_to |-> [v \in vertices(GState) |-> numpy_inf],
                         edge_to |-> [v \in vertices(GState) |-> None],
                         err |-> "none"]
               /\ pc' = "source"
               /\ hq_capacity' = g_n_vertices
               /\ hq_compare' = "pair_gt"
               /\ hq_count' = 0
               /\ hq_pq' = [c \in 0..g_n_vertices |-> None]
               /\ hq_raised' = "none"
    /\ UNCHANGED sp_path
    /\ UNCHANGED <<g_vars, bfs_vars, topo_vars, scc_vars, gc_vars, mst_vars>>
    /\ UNCHANGED <<iq_vars, uf_vars>>

\* self._dist_to[src] = 0.0 and the relaxation of the source.
DijkstraSource ==
    /\ pc = "source"
    /\ \E p \in {_relax(GState,
                    [source |-> sp.source, state |-> sp.state,
                     dist_to |-> [sp.dist_to EXCEPT ![sp.source] = 0],
                     edge_to |-> sp.edge_to,
                     err |-> "none", pq |-> HqState],
                    sp.source)} : SpReturn(p)
    /\ UNCHANGED hq_compare
    /\ UNCHANGED <<g_vars, bfs_vars, topo_vars, scc_vars, gc_vars, mst_vars>>
    /\ UNCHANGED <<iq_vars, uf_vars>>

\* One iteration of the while loop.
DijkstraLoop ==
    /\ pc = "relax"
    /\ hq_count # 0
    /\ \E p \in {sp_iteration(GState,
                    [source |-> sp.source, state |-> sp.state,
                     dist_to |-> sp.dist_to, edge_to |-> sp.edge_to,
                     err |-> "none", pq |-> HqState])} : SpReturn(p)
    /\ UNCHANGED hq_compare
    /\ UNCHANGED <<g_vars, bfs_vars, topo_vars, scc_vars, gc_vars, mst_vars>>
    /\ UNCHANGED <<iq_vars, uf_vars>>

\* The while loop ends: the queue is empty.
DijkstraReturn ==
    /\ pc = "relax"
    /\ hq_count = 0
    /\ pc' = "done"
    /\ UNCHANGED <<g_vars, bfs_vars, topo_vars, scc_vars, gc_vars, mst_vars, sp_vars>>
    /\ UNCHANGED <<iq_vars, hq_vars, uf_vars>>

\* path_to(v) on the constructed object.
DijkstraPathTo ==
    /\ pc = "done"
    /\ pc' = "read"
    /\ \E v \in vertices(GState) : sp_path' = sp_path_to(sp, v)
    /\ UNCHANGED <<sp, g_vars, bfs_vars, topo_vars, scc_vars, gc_vars, mst_vars>>
    /\ UNCHANGED <<iq_vars, hq_vars, uf_vars>>

DijkstraNext ==
    \/ WDiGraphAddEdge
    \/ DijkstraConstruct
    \/ DijkstraSource
    \/ DijkstraLoop
    \/ DijkstraReturn
    \/ DijkstraPathTo

-----------------------------------------------------------------------------
(* Properties of PriorityIndexQueue.                                       *)

\* The occupied heap slots are 1..size().
IqOccupied == 1..iq_count

\* The contained indices: those contains(i) answers True for.
IqContained == {i \in IqCells : contains(IqState, i)}

\* C1: while every push, pop, change and delete so far has returned
\* normally, qp[pq[k]] = k for every occupied slot k, every contained
\* index sits in exactly one occupied slot, which is qp[i], and an index
\* with qp[i] = -1 sits in no occupied slot.
C1_IndexBijection ==
    iq_allok =>
        /\ iq_count <= iq_capacity
        /\ \A k \in IqOccupied :
              iq_pq[k] \in IqCells /\ iq_qp[iq_pq[k]] = k
        /\ \A i \in IqCells :
              IF iq_qp[i] # -1
              THEN /\ iq_qp[i] \in IqOccupied
                   /\ iq_pq[iq_qp[i]] = i
                   /\ Cardinality({k \in IqOccupied : iq_pq[k] = i}) = 1
              ELSE \A k \in IqOccupied : iq_pq[k] # i

\* C1 witness: after a delete or a pop the removed index is still written
\* in a cell beyond the occupied slots, next to two occupied slots.
C1_Witness ==
    /\ iq_allok
    /\ iq_count >= 2
    /\ iq_count < iq_capacity
    /\ \E i \in IqCells :
          iq_qp[i] = -1 /\ \E k \in (iq_count + 1)..iq_capacity : iq_pq[k] = i

\* C2, as claimed: compare(key at slot k // 2, key at slot k) is true for
\* every occupied slot k >= 2 of a PriorityIndexQueue; stated for the
\* queues on which no call has raised, where every occupied slot is a
\* cell of the lists.
C2_ParentComparesTrue ==
    iq_allok => \A k \in 2..iq_count :
        /\ CompErr(IqState, k \div 2, k) = "none"
        /\ _comp(IqState, k \div 2, k)

\* C3, as claimed: compare(key at slot k // 2, key at slot k) is true for
\* every occupied slot k >= 2 of a PriorityQueue.
C3_ParentComparesTrue ==
    \A k \in 2..hq_count :
        /\ HeapCompErr(HqState, k \div 2, k) = "none"
        /\ heap_comp(HqState, k \div 2, k)

\* What _swim and _sink do establish in both queues while no call has
\* raised: the comparator is false from every parent to its child.
IqParentComparesFalse ==
    iq_allok =>
        \A k \in 2..iq_count :
            /\ CompErr(IqState, k \div 2, k) = "none"
            /\ ~_comp(IqState, k \div 2, k)

HqParentComparesFalse ==
    \A k \in 2..hq_count :
        /\ HeapCompErr(HqState, k \div 2, k) = "none"
        /\ ~heap_comp(HqState, k \div 2, k)

\* The top of a non-empty queue: top_ix() is contained, no contained key is
\* ranked before its key, top() is that key, pop() removes that index only.
IqTopIsFirst ==
    LET t == top_ix(IqState)
        r == pop(IqState)
    IN  /\ top_err(IqState) = "none"
        /\ t \in IqCells
        /\ contains(IqState, t)
        /\ \A j \in IqContained :
              /\ iq_keys[j] # None
              /\ ~Compare(iq_compare, iq_keys[t], iq_keys[j])
        /\ top(IqState) = iq_keys[t]
        /\ r.err = "none"
        /\ r.q.count = iq_count - 1
        /\ ~contains(r.q, t)
        /\ \A j \in IqCells \ {t} :
              /\ contains(r.q, j) = contains(IqState, j)
              /\ contains(IqState, j) => r.q.keys[j] = iq_keys[j]

\* The documented scenario on a minimum-first queue of capacity 4: with
\* keys 0: 5.0, 1: 2.0, 2: 8.0 top_ix() is 1 and top() is 2.0; with key 0
\* changed to 1.0, top_ix() is 0.
IqScenario ==
    (iq_capacity = 4 /\ iq_compare = "gt") =>
        /\ iq_keys = (0 :> 5 @@ 1 :> 2 @@ 2 :> 8 @@ 3 :> None @@ 4 :> None)
              => top_ix(IqState) = 1 /\ top(IqState) = 2
        /\ iq_keys = (0 :> 1 @@ 1 :> 2 @@ 2 :> 8 @@ 3 :> None @@ 4 :> None)
              => top_ix(IqState) = 0

\* C4, as claimed: in every state with a non-empty queue the top is first,
\* and the scenario gives the documented answers.
C4_TopIsFirst == (iq_count > 0 => IqTopIsFirst) /\ IqScenario

\* C4 holds as long as no call has raised.
C4_WhileNoCallRaised == (iq_allok /\ iq_count > 0 => IqTopIsFirst) /\ IqScenario

\* The scenario's two states are reached.
C4_ScenarioReached ==
    /\ iq_allok
    /\ iq_keys = (0 :> 1 @@ 1 :> 2 @@ 2 :> 8 @@ 3 :> None @@ 4 :> None)
    /\ iq_pq[2] = 1

\* C5: push(i, key) with i in the queue, pop(), top() and top_ix() on an
\* empty queue, and change(i, key), delete(i) and key_of(i) with i not in
\* the queue each raise, and leave size, keys, pq and qp as they were.
C5_FailedCallsChangeNothing ==
    /\ \A i \in IqArgs, key \in iq_domain :
          (is_valid(i) /\ contains(IqState, i)) =>
              push(IqState, i, key) = Raise(IqState, "AssertionError")
    /\ iq_count = 0 =>
          /\ pop(IqState) = Raise(IqState, "AssertionError")
          /\ top_err(IqState) = "AssertionError"
    /\ \A i \in IqArgs :
          (~is_valid(i) \/ ~contains(IqState, i)) =>
              /\ \A key \in iq_domain :
                    change(IqState, i, key) = Raise(IqState, "AssertionError")
              /\ delete(IqState, i) = Raise(IqState, "AssertionError")
              /\ key_of_err(IqState, i) = "AssertionError"

\* C5 witness: a call has just failed its assertion on a queue that holds
\* some indices and lacks others.
C5_Witness ==
    /\ iq_raised = "AssertionError"
    /\ iq_count >= 1
    /\ \E i \in IqCells : ~contains(IqState, i)

\* C6, as claimed: contains(i) and push(i, key) raise for every i < 0 and
\* every i >= capacity.
C6_IndexBelowCapacity ==
    \A i \in IqArgs :
        (i < 0 \/ i >= iq_capacity) =>
            /\ contains_err(i) = "AssertionError"
            /\ \A key \in iq_domain :
                  push(IqState, i, key).err = "AssertionError"

\* What delete(i) does to a queue that contains i: it returns, i is no
\* longer contained, the size is one less, every other contained index is
\* still contained with its key.
IqDeleteRemoves(i) ==
    LET r == delete(IqState, i)
    IN  /\ r.err = "none"
        /\ ~contains(r.q, i)
        /\ r.q.count = iq_count - 1
        /\ \A j \in IqCells \ {i} :
              /\ contains(r.q, j) = contains(IqState, j)
              /\ contains(IqState, j) => r.q.keys[j] = iq_keys[j]

\* C7, as claimed: delete(i) removes i and nothing else from every queue
\* that contains i.
C7_DeleteRemovesOnlyI == \A i \in IqContained : IqDeleteRemoves(i)

\* C7 holds as long as no call has raised.
C7_WhileNoCallRaised == iq_allok => \A i \in IqContained : IqDeleteRemoves(i)

\* change(i, key) on the queue as it is, i being contained: swum is the
\* queue after the rebinding and the upward fix-up, r what change returns.
\* The call returns; i has the new key; the contained indices, size() and
\* the other indices' keys are as before; and when the swim has moved i to
\* another slot the sink has swapped nothing.
IqChangeMovesOnce(i, key) ==
    \A swum \in {_swim([IqState EXCEPT !.keys[i] = key], iq_qp[i])} :
    \A r \in {change(IqState, i, key)} :
        /\ swum.err = "none"
        /\ r.err = "none"
        /\ r.q.keys[i] = key
        /\ r.q.count = iq_count
        /\ \A j \in IqCells :
              /\ contains(r.q, j) = contains(IqState, j)
              /\ j # i => r.q.keys[j] = iq_keys[j]
        /\ swum.q.qp[i] # iq_qp[i] => r.q = swum.q

\* C24, as claimed: in every state of the queue, change(i, key) on a
\* contained index i rebinds i, keeps the contained indices, the size and
\* the other keys, and moves i by at most one of its two fix-ups.
C24_ChangeMovesOnce ==
    \A i \in IqCells : contains(IqState, i) =>
        \A key \in iq_domain : IqChangeMovesOnce(i, key)

\* C24 holds as long as no call has raised.
C24_WhileNoCallRaised ==
    iq_allok => \A i \in IqCells : contains(IqState, i) =>
                   \A key \in iq_domain : IqChangeMovesOnce(i, key)

\* A queue on which no call has raised, with three indices, where a change
\* swims some index up and another change sinks some index down.
C24_Witness ==
    /\ iq_allok
    /\ iq_count >= 3
    /\ \E i \in IqContained, key \in iq_domain :
          _swim([IqState EXCEPT !.keys[i] = key], iq_qp[i]).q.qp[i] < iq_qp[i]
    /\ \E i \in IqContained, key \in iq_domain :
          change(IqState, i, key).q.qp[i] > iq_qp[i]

-----------------------------------------------------------------------------
(* Properties of the size of PriorityIndexQueue.                           *)

\* push(i, key) on the queue as it is, when it raises, leaves size(), qp
\* and keys as they were.
IqFailedPushChangesNothing(i, key) ==
    \A r \in {push(IqState, i, key)} :
        r.err # "none" =>
            /\ r.q.count = iq_count
            /\ r.q.qp = iq_qp
            /\ r.q.keys = iq_keys

\* C35, as claimed: a queue of capacity C never holds more than C keys,
\* size() <= C in every state that push, pop, change and delete reach, and
\* a push that cannot be stored fails without a change to size(), qp or
\* keys.
C35_AtMostCapacityKeys ==
    /\ iq_count <= iq_capacity
    /\ \A i \in IqArgs, key \in iq_domain : IqFailedPushChangesNothing(i, key)

\* What the code does: size() never exceeds C + 1, it exceeds C only after
\* a push has raised IndexError, and a push that fails its assertion
\* changes nothing.
C35_AtMostOneKeyMore ==
    /\ iq_count <= iq_capacity + 1
    /\ iq_allok => iq_count <= iq_capacity
    /\ \A i \in IqArgs, key \in iq_domain :
          push(IqState, i, key).err = "AssertionError" =>
              IqFailedPushChangesNothing(i, key)

-----------------------------------------------------------------------------
(* Properties of the heap order of both queues.                            *)

\* The occupied slots of the indexed queue: those of 1..size() that the
\* array has.
IqSlots == {k \in 1..iq_count : k \in IqCells}

\* PriorityQueue: no parent compares true against its child, and no stored
\* key compares true against the root's: with x < y no key is larger than
\* the root, with x > y none is smaller.
HqHeapOrder ==
    /\ \A k \in 2..hq_count :
          /\ HeapCompErr(HqState, k \div 2, k) = "none"
          /\ ~heap_comp(HqState, k \div 2, k)
    /\ \A k \in 1..hq_count :
          /\ hq_compare = "lt" => hq_pq[k] <= heap_top(HqState)
          /\ hq_compare = "gt" => hq_pq[k] >= heap_top(HqState)

\* PriorityIndexQueue: the same, over the keys of the indices in the slots.
IqHeapOrder ==
    /\ \A k \in IqSlots \ {1} :
          /\ CompErr(IqState, k \div 2, k) = "none"
          /\ ~_comp(IqState, k \div 2, k)
    /\ \A k \in IqSlots :
          /\ iq_compare = "lt" => iq_keys[iq_pq[k]] <= iq_keys[iq_pq[1]]
          /\ iq_compare = "gt" => iq_keys[iq_pq[k]] >= iq_keys[iq_pq[1]]

\* C33: after any sequence of push and pop calls, and of change and delete
\* calls on the indexed queue, no parent compares true against its child:
\* compare(key at slot k div 2, key at slot k) is false for every occupied
\* slot k >= 2, so that with the comparator x < y the largest key is at
\* the root and with x > y the smallest.
C33_NoParentComparesTrue == HqHeapOrder /\ IqHeapOrder

\* C33 holds of PriorityQueue in every state, and of PriorityIndexQueue as
\* long as no call has raised.
C33_WhileNoCallRaised == HqHeapOrder /\ (iq_allok => IqHeapOrder)

\* Queues of both classes hold three keys, not all equal, after a pop.
C33_ReachedHq ==
    /\ pc = "PriorityQueue"
    /\ hq_count = 3
    /\ hq_pq[2] # hq_pq[1]
    /\ hq_capacity > 4
    /\ hq_pq[4] # None

C33_ReachedIq ==
    /\ pc = "PriorityIndexQueue"
    /\ iq_allok
    /\ iq_count = 3
    /\ iq_keys[iq_pq[3]] # iq_keys[iq_pq[1]]

-----------------------------------------------------------------------------
(* Properties of PriorityQueue's resizing.                                 *)

\* How many times key is stored in the slots 1..count of h.
HqCopies(h, key) == Cardinality({k \in 1..h.count : h.pq[k] = key})

\* push(key) on the queue as it is returns, with one more copy of key and
\* as many copies of every other key as before.
HqPushKeepsKeys(key) ==
    \A r \in {heap_push(HqState, key)} :
        /\ r.err = "none"
        /\ r.q.count = hq_count + 1
        /\ \A x \in Keys :
              HqCopies(r.q, x) = HqCopies(HqState, x) + (IF x = key THEN 1 ELSE 0)

\* C27, as claimed: push doubles the capacity exactly when count equals
\* the capacity before the insertion, leaves the capacity as it is
\* otherwise, and no stored key is lost or duplicated.
C27_GrowsExactlyAtCapacity ==
    \A key \in Keys :
        /\ HqPushKeepsKeys(key)
        /\ heap_push(HqState, key).q.capacity =
              IF hq_count = hq_capacity THEN 2 * hq_capacity ELSE hq_capacity

\* What the code does: push doubles the capacity exactly when count equals
\* the capacity less one, and no stored key is lost or duplicated.
C27_GrowsOneKeyEarly ==
    \A key \in Keys :
        /\ HqPushKeepsKeys(key)
        /\ heap_push(HqState, key).q.capacity =
              IF hq_count = hq_capacity - 1 THEN 2 * hq_capacity ELSE hq_capacity
        /\ hq_count # hq_capacity

\* pop() on the queue as it is halves the capacity.
HqPopShrinks ==
    /\ hq_count > 0
    /\ heap_pop(HqState).err = "none"
    /\ heap_pop(HqState).q.capacity # hq_capacity

\* The push of key right after that pop changes the capacity again.
HqPushGrowsAfterPop(key) ==
    heap_push(heap_pop(HqState).q, key).q.capacity
        # heap_pop(HqState).q.capacity

\* C28, as claimed: whatever the initial capacity and the calls made so
\* far, when pop() shrinks the backing array the push that follows it at
\* once performs no resize.
C28_NoGrowthRightAfterShrinking ==
    HqPopShrinks => \A key \in Keys : ~HqPushGrowsAfterPop(key)

\* The shrinking pop that a growing push follows is the one that leaves a
\* single key and halves the capacity 5 to 2.
C28_OnlyFromCapacityFive ==
    /\ HqPopShrinks =>
          /\ heap_pop(HqState).q.capacity = hq_capacity \div 2
          /\ heap_pop(HqState).q.count = (hq_capacity - 1) \div 4
    /\ \A key \in Keys :
          (HqPopShrinks /\ HqPushGrowsAfterPop(key)) =>
              hq_capacity = 5 /\ hq_count = 2

\* A pop shrinks and no growing push can follow: capacity 8 to 4.
C28_ShrinkReached == HqPopShrinks /\ hq_capacity = 8

\* pop() on a queue that holds keys returns, with one copy less of the top
\* key and as many copies of every other key as before.
HqPopKeepsKeys ==
    \A r \in {heap_pop(HqState)} :
        /\ r.err = "none"
        /\ r.q.count = hq_count - 1
        /\ \A x \in Keys :
              HqCopies(r.q, x) =
                  HqCopies(HqState, x) - (IF x = heap_top(HqState) THEN 1 ELSE 0)

\* C34: whatever the initial capacity and the push and pop calls made,
\* 0 <= size() < capacity <= length of the backing array; no call
\* addresses a slot outside the array, which would raise IndexError; and
\* every push and pop, resizing or not, keeps exactly the stored keys, in
\* the slots 1..size().
C34_SizeBelowCapacity ==
    /\ 0 <= hq_count
    /\ hq_count < hq_capacity
    /\ hq_capacity <= Cardinality(DOMAIN hq_pq)
    /\ DOMAIN hq_pq = 0..(Cardinality(DOMAIN hq_pq) - 1)
    /\ hq_raised # "IndexError"
    /\ \A k \in 1..hq_count : hq_pq[k] \in Keys
    /\ \A key \in Keys : HqPushKeepsKeys(key)
    /\ hq_count > 0 => HqPopKeepsKeys

\* C34 witness: a queue whose array has been resized and is full, with
\* three keys, one below its capacity.
C34_Witness ==
    /\ Cardinality(DOMAIN hq_pq) = hq_capacity
    /\ hq_count = hq_capacity - 1
    /\ hq_count = 3
    /\ hq_raised = "none"

-----------------------------------------------------------------------------
(* Properties of UnionFind.                                                *)

UfKeys == 0..(uf_n_keys - 1)

\* The keys that are their own parent.
UfRoots == {k \in UfKeys : uf_parent[k] = k}

\* C8: on the valid keys connected(p, q) is reflexive, symmetric and
\* transitive, it is the same as find(p) == find(q), and it is true
\* exactly when p and q are linked by a chain of the joins made so far.
C8_ConnectedIsJoinClosure ==
    LET conn(p, q) == connected(UfState, p, q).ret
    IN  /\ \A p \in UfKeys : conn(p, p)
        /\ \A p, q \in UfKeys : conn(p, q) => conn(q, p)
        /\ \A p, q, r \in UfKeys : (conn(p, q) /\ conn(q, r)) => conn(p, r)
        /\ \A p, q \in UfKeys :
              /\ connected(UfState, p, q).err = "none"
              /\ conn(p, q) = (find(UfState, p).ret = find(UfState, q).ret)
              /\ conn(p, q) = (q \in uf_linked[p])

\* C8 witness: joins have linked three keys into one set through a chain,
\* and another key is in none of the joins.
C8_Witness ==
    /\ uf_n_sets >= 2
    /\ \E p \in UfKeys :
          /\ Cardinality(uf_linked[p]) >= 3
          /\ uf_parent[uf_parent[p]] # uf_parent[p]

\* C9: join(p, q) of two keys in distinct sets makes n_sets() one less,
\* join(p, q) of two connected keys leaves it, and n_sets() is the number
\* of keys that are their own parent.
C9_SetsCount ==
    /\ uf_n_sets = Cardinality(UfRoots)
    /\ \A p, q \in UfKeys :
          LET r == join(UfState, p, q)
          IN  /\ r.err = "none"
              /\ r.q.n_sets = IF q \in uf_linked[p] THEN uf_n_sets
                              ELSE uf_n_sets - 1

\* C9 witness: joins have merged three keys into one set, and at least
\* two sets remain.
C9_Witness ==
    /\ uf_n_sets < uf_n_keys
    /\ uf_n_sets >= 2
    /\ \E p \in UfKeys : Cardinality(uf_linked[p]) >= 3

RECURSIVE SumOfSizes(_)
SumOfSizes(roots) ==
    IF roots = {} THEN 0
    ELSE LET k == CHOOSE x \in roots : TRUE
         IN  uf_size[k] + SumOfSizes(roots \ {k})

\* C10: size(p) is the number of keys connected to p, for every valid key
\* p, root or not, and the sizes at the roots add up to n_keys().
C10_SizeIsSetSize ==
    /\ \A p \in UfKeys :
          /\ size(UfState, p).err = "none"
          /\ size(UfState, p).ret = Cardinality(uf_linked[p])
    /\ SumOfSizes(UfRoots) = uf_n_keys

\* C10 witness: a key that is not a root, in a set of three keys, next to
\* a set of another size.
C10_Witness ==
    \E p, q \in UfKeys :
        /\ uf_parent[p] # p
        /\ Cardinality(uf_linked[p]) = 3
        /\ Cardinality(uf_linked[q]) # 3

\* The key reached from p by k parent links.
RECURSIVE UfUp(_, _, _)
UfUp(parent, p, k) == IF k = 0 THEN p ELSE UfUp(parent, parent[p], k - 1)

\* The keys from p up to the end of its chain of parent links.
UfPath(p) == {UfUp(uf_parent, p, k) : k \in 0..(uf_n_keys - 1)}

\* find(p) on the union-find as it is, root being the key that n_keys - 1
\* parent links lead to from p.  That key is its own parent, so the first
\* loop of find ends within n_keys - 1 steps; find returns it; afterwards
\* every key of the path has it as parent, every key off the path has the
\* parent it had, every key has the root it had, and the sizes and the
\* number of sets are as before.
UfFindCompresses(p) ==
    \A root \in {UfUp(uf_parent, p, uf_n_keys - 1)} :
        /\ uf_parent[root] = root
        /\ \A r \in {find(UfState, p)} :
              /\ r.err = "none"
              /\ r.ret = root
              /\ \A k \in UfPath(p) : r.q.parent[k] = root
              /\ \A k \in UfKeys \ UfPath(p) : r.q.parent[k] = uf_parent[k]
              /\ \A k \in UfKeys :
                    UfUp(r.q.parent, k, uf_n_keys - 1)
                        = UfUp(uf_parent, k, uf_n_keys - 1)
              /\ r.q.size = uf_size
              /\ r.q.n_sets = uf_n_sets

\* C25: find(p) on a valid key terminates and returns the root of p's set;
\* afterwards every key on the path from p to the root points directly at
\* the root, and the partition, the sizes at the roots, n_sets() and the
\* parents of the keys off the path are unchanged.
C25_FindCompressesThePath == \A p \in UfKeys : UfFindCompresses(p)

\* C25 witness: a key two links below its root, with a key of the same set
\* off its path and another set beside, so that find moves a parent link.
C25_Witness ==
    /\ uf_n_sets >= 2
    /\ \E p \in UfKeys :
          /\ uf_parent[uf_parent[p]] # uf_parent[p]
          /\ find(UfState, p).q.parent # uf_parent
          /\ uf_linked[p] \ UfPath(p) # {}

\* The number of parent links from p to the root of its set.
UfDepth(p) ==
    CHOOSE k \in 0..(uf_n_keys - 1) :
        /\ uf_parent[UfUp(uf_parent, p, k)] = UfUp(uf_parent, p, k)
        /\ \A j \in 0..(k - 1) :
              uf_parent[UfUp(uf_parent, p, j)] # UfUp(uf_parent, p, j)

\* C26: after any sequence of joins and finds, the number of parent links
\* from a key p to the root of its set is at most floor(log2(s)), s being
\* the number of keys of p's set: 2^links <= s.
C26_HeightIsLogarithmic ==
    \A p \in UfKeys :
        /\ \E k \in 0..(uf_n_keys - 1) :
              uf_parent[UfUp(uf_parent, p, k)] = UfUp(uf_parent, p, k)
        /\ 2 ^ UfDepth(p) <= Cardinality(uf_linked[p])
        /\ 2 ^ UfDepth(p) <= uf_size[UfUp(uf_parent, p, UfDepth(p))]

\* C26 witness: the bound is met, a key two links below the root of a set
\* of exactly four keys, with another set beside it.
C26_Witness ==
    /\ uf_n_sets >= 2
    /\ \E p \in UfKeys :
          /\ UfDepth(p) = 2
          /\ Cardinality(uf_linked[p]) = 4

-----------------------------------------------------------------------------
(* Properties of the graph algorithms.                                     *)

GVertices == 0..(g_n_vertices - 1)

\* w is in v's adjacency list.
HasEdge(v, w) == \E i \in 1..Len(g_adj[v]) : g_adj[v][i] = w

\* The vertices some walk of at most k edges leads to from s.
RECURSIVE Within(_, _)
Within(s, k) ==
    IF k = 0 THEN {s}
    ELSE LET near == Within(s, k - 1)
         IN  near \cup {w \in GVertices : \E v \in near : HasEdge(v, w)}

\* The vertices some walk leads to from s: a walk that repeats no vertex has
\* fewer edges than there are vertices.
ReachableFrom(s) == Within(s, g_n_vertices)

Reachable(s, v) == v \in ReachableFrom(s)

\* j -> the vertices within j edges of s, for j up to k.
RECURSIVE HopsUpTo(_, _)
HopsUpTo(s, k) ==
    IF k = 0 THEN (0 :> {s})
    ELSE LET hops == HopsUpTo(s, k - 1)
             near == hops[k - 1]
         IN  hops @@ (k :> (near \cup {w \in GVertices :
                                          \E v \in near : HasEdge(v, w)}))

Hops(s) == HopsUpTo(s, g_n_vertices)

\* The least number of edges of a walk to v, given hops = Hops(s).
MinEdges(hops, v) ==
    CHOOSE k \in DOMAIN hops : v \in hops[k] /\ (k = 0 \/ v \notin hops[k - 1])

\* C11: once BreadthFirstPaths(graph, s) is constructed, is_visited(v) is
\* true exactly for the vertices reachable from s, dist_to(v) of a visited
\* v is the least number of edges of a path from s to v, dist_to(s) is 0,
\* and dist_to(v) of an unvisited v is infinite.
C11_BfsDistIsMinimal ==
    pc = "done" =>
        \A hops \in {Hops(bfs.source)} :
            /\ dist_to(bfs, bfs.source) = 0
            /\ \A v \in GVertices :
                  /\ is_visited(bfs, v) = (v \in hops[g_n_vertices])
                  /\ is_visited(bfs, v) => dist_to(bfs, v) = MinEdges(hops, v)
                  /\ ~is_visited(bfs, v) => dist_to(bfs, v) = numpy_inf

\* C11 witness: a vertex two edges away from the source, found from a
\* vertex one edge away, and a vertex that is not reachable.
C11_Witness ==
    /\ pc = "done"
    /\ \E v \in GVertices : ~is_visited(bfs, v)
    /\ \E v \in GVertices :
          /\ dist_to(bfs, v) = 2
          /\ bfs.edge_to[v] # bfs.source
          /\ dist_to(bfs, bfs.edge_to[v]) = 1

\* The sequence iterating path_to(v)'s stack gives.
BfsPath(v) == stack_iter(path_to(bfs, v).stack)

\* p goes from s to v along edges of the graph.
IsPath(p, s, v) ==
    /\ Len(p) >= 1
    /\ p[1] = s
    /\ p[Len(p)] = v
    /\ \A i \in 1..(Len(p) - 1) : HasEdge(p[i], p[i + 1])

\* C12: path_to(v) is None exactly when v was not visited; otherwise the
\* path it returns starts at the source, ends at v, has dist_to(v) + 1
\* vertices, and every two consecutive vertices are joined by an edge.
C12_PathToIsAPath ==
    pc = "done" =>
        \A v \in GVertices :
            /\ path_to(bfs, v).none = ~is_visited(bfs, v)
            /\ is_visited(bfs, v) =>
                  \A p \in {BfsPath(v)} :
                      /\ Len(p) = dist_to(bfs, v) + 1
                      /\ IsPath(p, bfs.source, v)

\* C12 witness: path_to has returned a path of three vertices for one
\* vertex, and None is what it returns for another.
C12_Witness ==
    /\ pc = "done"
    /\ bfs_path.none = FALSE
    /\ Len(bfs_path.stack) = 3
    /\ stack_iter(bfs_path.stack)[1] = bfs.source
    /\ \E v \in GVertices : path_to(bfs, v).none

\* The vertices some walk of at least one edge leads to from v.
ReachPlus(v) ==
    UNION {Within(w, g_n_vertices) : w \in {x \in GVertices : HasEdge(v, x)}}

\* No walk of at least one edge leads from a vertex back to it.
Acyclic == \A v \in GVertices : v \notin ReachPlus(v)

\* The vertices as iterating the DepthFirstTopoSortRecursive object gives
\* them, and the place of v in such an order.
TopoOrder == topo_iter(topo)

Place(order, v) == CHOOSE i \in 1..Len(order) : order[i] = v

\* C13: on an acyclic digraph, iterating the DepthFirstTopoSortRecursive
\* object gives every vertex exactly once, and for every edge v -> w it
\* gives v before w.
C13_TopoOrderFollowsEdges ==
    (pc # "build" /\ Acyclic) =>
        \A order \in {TopoOrder} :
            /\ Len(order) = g_n_vertices
            /\ \A v \in GVertices :
                  Cardinality({i \in 1..Len(order) : order[i] = v}) = 1
            /\ \A v \in GVertices, w \in GVertices :
                  HasEdge(v, w) => Place(order, v) < Place(order, w)

\* C13 witness: an acyclic digraph of three edges, one of them from a vertex
\* to a vertex of a smaller number, the search of one vertex reaching two
\* others.
C13_Witness ==
    /\ pc # "build"
    /\ Acyclic
    /\ g_n_edges >= 3
    /\ \E v \in GVertices, w \in GVertices : HasEdge(v, w) /\ w < v
    /\ \E v \in GVertices : Cardinality(ReachPlus(v)) >= 2

\* C14: once DepthFirstSCC(graph) is constructed, connected(v, w) is true
\* exactly when w is reachable from v and v from w in the graph; it is
\* reflexive, symmetric and transitive; and count() is the number of
\* distinct ids.
C14_SccIsMutualReachability ==
    pc # "build" =>
        \A from \in {[v \in GVertices |-> ReachableFrom(v)]} :
            /\ \A v \in GVertices, w \in GVertices :
                  scc_connected(scc, v, w) = (w \in from[v] /\ v \in from[w])
            /\ \A v \in GVertices : scc_connected(scc, v, v)
            /\ \A v \in GVertices, w \in GVertices :
                  scc_connected(scc, v, w) => scc_connected(scc, w, v)
            /\ \A v \in GVertices, w \in GVertices, x \in GVertices :
                  (scc_connected(scc, v, w) /\ scc_connected(scc, w, x))
                      => scc_connected(scc, v, x)
            /\ scc_count(scc) = Cardinality({scc.id[v] : v \in GVertices})

\* C14 witness: two vertices on a common cycle, and a third vertex that is
\* reachable from them but leads back to neither.
C14_Witness ==
    /\ pc # "build"
    /\ \E v \in GVertices, w \in GVertices, x \in GVertices :
          /\ v # w
          /\ scc_connected(scc, v, w)
          /\ Reachable(v, x)
          /\ ~scc_connected(scc, v, x)
          /\ scc.id[x] < scc.id[v]

\* The vertices that a walk from a vertex of R reaches without passing the
\* edge a - b.
RECURSIVE ReachAvoiding(_, _, _)
ReachAvoiding(R, a, b) ==
    LET N == R \cup {w \in GVertices :
                        \E v \in R : HasEdge(v, w) /\ {v, w} # {a, b}}
    IN  IF N = R THEN R ELSE ReachAvoiding(N, a, b)

\* The graph contains a cycle: the ends of some edge are joined by a walk
\* that does not pass it.
GraphHasCycle ==
    \E a \in GVertices, b \in GVertices :
        HasEdge(a, b) /\ b \in ReachAvoiding({a}, a, b)

GraphEdges ==
    {e \in SUBSET GVertices :
        \E v \in GVertices, w \in GVertices : e = {v, w} /\ HasEdge(v, w)}

IsScenarioGraph ==
    /\ g_n_vertices = 4
    /\ GraphEdges = {{0, 1}, {1, 2}, {2, 0}, {2, 3}}

GcConstructed == pc \in {"done", "read"}

CycleWalk == stack_iter(gc.cycle)

IsClosedWalk(p) ==
    /\ Len(p) >= 2
    /\ p[1] = p[Len(p)]
    /\ \A i \in 1..(Len(p) - 1) : HasEdge(p[i], p[i + 1])

WEdges == {g_adj[v][i] : <<v, i>> \in {p \in GVertices \X (1..MaxWEdges + 1) :
                                          p[2] <= Len(g_adj[p[1]])}}

Range(s) == {s[i] : i \in 1..Len(s)}

\* The vertices joined to a vertex of R by the edges of es.
RECURSIVE JoinedBy(_, _)
JoinedBy(R, es) ==
    LET N == R \cup {edge_other(e, v) :
                        <<e, v>> \in {p \in es \X R :
                                         p[2] \in {edge_first(p[1]),
                                                   edge_second(p[1])}}}
    IN  IF N = R THEN R ELSE JoinedBy(N, es)

ComponentsOf(es) == {JoinedBy({v}, es) : v \in GVertices}

IsConnectedBy(es) == JoinedBy({0}, es) = GVertices

\* The edges of es contain no cycle: a forest on n vertices with c
\* components has n - c edges.
IsForest(es) == Cardinality(es) = g_n_vertices - Cardinality(ComponentsOf(es))

RECURSIVE WeightOf(_)
WeightOf(es) ==
    IF es = {} THEN 0
    ELSE LET e == CHOOSE x \in es : TRUE
         IN  edge_weight(e) + WeightOf(es \ {e})

SpanningTrees ==
    {t \in SUBSET WEdges :
        Cardinality(t) = g_n_vertices - 1 /\ IsConnectedBy(t)}

IsLeast(x, S) == x \in S /\ \A y \in S : x <= y

IsGreatest(x, S) == x \in S /\ \A y \in S : x >= y

\* MstKruskal's constructor has returned.
KruskalConstructed ==
    pc \in {"kruskal", "lazy", "lazy_loop", "lazy_done", "eager", "eager_loop",
            "done"}

IsScenarioWGraph ==
    /\ g_n_vertices = 3
    /\ g_n_edges = 3
    /\ WEdges = {Edge(0, 1, 5), Edge(1, 2, 3), Edge(0, 2, 10)}

\* C17, as claimed: on a connected weighted graph MstKruskal pops the
\* lightest edge of its queue at every iteration and returns a spanning
\* tree of the least weight among the spanning trees; on the graph
\* (0,1,0.5), (1,2,0.3), (0,2,1.0) its weight is 0.8 and its edges are
\* (1,2) and (0,1).
C17_KruskalMinimumWeight ==
    IsConnectedBy(WEdges) =>
        /\ (pc = "loop" /\ hq_count > 0) =>
              \A k \in 1..hq_count :
                  edge_weight(heap_top(HqState)) <= edge_weight(hq_pq[k])
        /\ KruskalConstructed =>
              /\ Range(kr_mst) \in SpanningTrees
              /\ IsLeast(mst_weight(kr_mst),
                         {WeightOf(t) : t \in SpanningTrees})
              /\ IsScenarioWGraph =>
                    /\ mst_weight(kr_mst) = 8
                    /\ Range(kr_mst) = {Edge(1, 2, 3), Edge(0, 1, 5)}

\* What MstKruskal does on a connected weighted graph: it pops the heaviest
\* edge of its queue at every iteration and returns a spanning tree of the
\* greatest weight; on the graph of the scenario that is 1.5, with the
\* edges (0,2) and (0,1).
KruskalMaximumWeight ==
    IsConnectedBy(WEdges) =>
        /\ (pc = "loop" /\ hq_count > 0) =>
              \A k \in 1..hq_count :
                  edge_weight(heap_top(HqState)) >= edge_weight(hq_pq[k])
        /\ KruskalConstructed =>
              /\ Range(kr_mst) \in SpanningTrees
              /\ IsGreatest(mst_weight(kr_mst),
                            {WeightOf(t) : t \in SpanningTrees})
              /\ IsScenarioWGraph =>
                    /\ mst_weight(kr_mst) = 15
                    /\ Range(kr_mst) = {Edge(0, 2, 10), Edge(0, 1, 5)}

KruskalScenarioReached == pc = "kruskal" /\ IsScenarioWGraph

\* C18, as claimed: on a connected weighted graph the trees of MstKruskal,
\* MstPrimLazy and MstPrimEager have the same weight().
C18_SameWeight ==
    (pc = "done" /\ IsConnectedBy(WEdges)) =>
        /\ prim_lazy.err = "none" /\ prim_eager.err = "none"
        /\ mst_weight(kr_mst) = mst_weight(prim_lazy.mst)
        /\ mst_weight(kr_mst) = mst_weight(prim_eager.mst)

\* What the three constructors do agree on, on a connected weighted graph:
\* each returns a spanning tree, MstKruskal and MstPrimLazy one of the
\* greatest weight.
MstAllSpanningTrees ==
    (pc = "done" /\ IsConnectedBy(WEdges)) =>
        /\ prim_lazy.err = "none" /\ prim_eager.err = "none"
        /\ Range(kr_mst) \in SpanningTrees
        /\ Range(prim_lazy.mst) \in SpanningTrees
        /\ Range(prim_eager.mst) \in SpanningTrees
        /\ mst_weight(kr_mst) = mst_weight(prim_lazy.mst)

\* C19: on a weighted graph of at least one edge the while loop of
\* MstKruskal ends: every iteration leaves fewer edges in the queue (a
\* number that is never negative) or is the last, and none raises.  The
\* edges of _mst never contain a cycle; on a connected
\* graph the constructor returns n_vertices - 1 edges, on a disconnected
\* graph it returns with its queue empty and n_vertices minus the number of
\* connected components edges.
C19_KruskalEndsWithAForest ==
    /\ [][pc = "loop" =>
            \/ pc' = "kruskal"
            \/ pc' = "loop" /\ hq_count' >= 0 /\ hq_count' < hq_count]_vars
    /\ [](g_n_edges > 0 => pc # "raised")
    /\ [](pc \in {"push", "loop", "kruskal"} =>
            /\ Cardinality(Range(kr_mst)) = Len(kr_mst)
            /\ Range(kr_mst) \subseteq WEdges
            /\ IsForest(Range(kr_mst)))
    /\ [](pc = "kruskal" =>
            IF IsConnectedBy(WEdges)
            THEN Len(kr_mst) = g_n_vertices - 1
            ELSE /\ hq_count = 0
                 /\ Len(kr_mst) =
                       g_n_vertices - Cardinality(ComponentsOf(WEdges)))

\* C19 witness: the constructor has returned on a disconnected graph, with
\* an edge in the tree and another edge discarded for closing a cycle.
C19_Witness ==
    /\ pc = "kruskal"
    /\ ~IsConnectedBy(WEdges)
    /\ hq_count = 0
    /\ Len(kr_mst) >= 1
    /\ Len(kr_mst) < g_n_edges

-----------------------------------------------------------------------------
(* Properties of BreadthFirstPaths._bfs while it runs.                     *)

BfsRunning == pc \in {"bfs_loop", "bfs_done"}

\* A step of _bfs leaves a visited vertex visited, with the dist_to and the
\* edge_to it has, and gives a vertex no state but unvisited and visited.
BfsVisitedIsFinal ==
    BfsRunning =>
        \A v \in GVertices :
            /\ bfs'.state[v] \in {STATE_NEW, VISITED}
            /\ bfs.state[v] = VISITED =>
                  /\ bfs'.state[v] = VISITED
                  /\ bfs'.dist_to[v] = bfs.dist_to[v]
                  /\ bfs'.edge_to[v] = bfs.edge_to[v]

\* No vertex has been pushed on the queue twice.
BfsPushedOnce ==
    \A i, j \in 1..Len(bfs_run.pushed) :
        bfs_run.pushed[i] = bfs_run.pushed[j] => i = j

\* The vertices dequeued so far came out in non-decreasing dist_to order.
BfsPoppedInOrder ==
    \A i, j \in 1..Len(bfs_run.popped) :
        i < j => bfs.dist_to[bfs_run.popped[i]] <= bfs.dist_to[bfs_run.popped[j]]

\* C31: during _bfs the state of a vertex changes at most once, from
\* unvisited to visited and never back; each vertex is pushed on the queue
\* at most once; dist_to and edge_to of a vertex are not modified once it
\* is visited; and the vertices are dequeued in non-decreasing dist_to
\* order.
C31_BfsVisitsOnceInOrder ==
    /\ [][BfsVisitedIsFinal]_vars
    /\ [](BfsRunning => BfsPushedOnce /\ BfsPoppedInOrder)

\* C31 witness: _bfs has returned having dequeued four vertices at three
\* different distances, on a graph with a cycle, so that a visited vertex
\* was met again.
C31_Witness ==
    /\ pc = "bfs_done"
    /\ Len(bfs_run.popped) = 4
    /\ bfs.dist_to[bfs_run.popped[4]] = 2
    /\ g_n_edges >= 4

\* The object _bfs leaves step by step is the one the constructor returns.
BfsRunIsBfs == pc = "bfs_done" => bfs = BreadthFirstPaths(GState, bfs.source)

-----------------------------------------------------------------------------
(* Properties of DepthFirstPathsRecursive.                                 *)

\* The vertex k steps of edge_to lead to from v, stopping at the source.
RECURSIVE DfpUp(_, _)
DfpUp(v, k) ==
    IF k = 0 \/ v = dfp.source THEN v ELSE DfpUp(dfp.edge_to[v], k - 1)

DfpPath(v) == stack_iter(dfp_path_to(dfp, v).stack)

\* C32: v is marked visited exactly when it is reachable from the source;
\* for a visited v the walk of path_to reaches the source, and the path it
\* returns goes from the source to v along edges of the graph and repeats
\* no vertex; for an unvisited v path_to returns None.
C32_DfsPathIsSimple ==
    pc = "done" =>
        \A R \in {ReachableFrom(dfp.source)} :
        \A v \in GVertices :
            /\ (dfp.state[v] = VISITED) = (v \in R)
            /\ dfp_path_to(dfp, v).none = (dfp.state[v] # VISITED)
            /\ dfp.state[v] = VISITED =>
                  /\ DfpUp(v, g_n_vertices - 1) = dfp.source
                  /\ \A p \in {DfpPath(v)} :
                        /\ IsPath(p, dfp.source, v)
                        /\ \A i, j \in 1..Len(p) : p[i] = p[j] => i = j

\* C32 witness: path_to has returned a path of three vertices although an
\* edge joins its last vertex to the source, and None is what it returns
\* for another vertex.
C32_Witness ==
    /\ pc = "read"
    /\ dfp_path.none = FALSE
    /\ Len(dfp_path.stack) >= 3
    /\ HasEdge(dfp.source, dfp_path.stack[1])
    /\ \E v \in GVertices : dfp_path_to(dfp, v).none

-----------------------------------------------------------------------------
(* Properties of MstPrimEager.edges() on any weighted graph.               *)

\* The vertices connected to vertex 0.
EagerComponent == JoinedBy({0}, WEdges)

\* The entries of edges() that are edges.
EagerEdges == Range(prim_eager.mst) \ {None}

\* C40, as claimed: on any weighted graph, connected or not, every entry of
\* MstPrimEager.edges() is an edge of the graph, there is one entry for
\* each vertex other than 0 connected to vertex 0 and no other, and the
\* entries are a tree that spans the component of vertex 0.
C40_EdgesAreATreeOfTheComponent ==
    pc = "done" =>
        /\ \A i \in DOMAIN prim_eager.mst : prim_eager.mst[i] \in WEdges
        /\ Len(prim_eager.mst) = Cardinality(EagerComponent) - 1
        /\ JoinedBy({0}, Range(prim_eager.mst)) = EagerComponent
        /\ Cardinality(Range(prim_eager.mst)) = Cardinality(EagerComponent) - 1

\* What the code does: edges() has one entry for each vertex other than 0,
\* an edge of the graph at that vertex when the vertex is connected to
\* vertex 0 and None when it is not; the entries that are edges are a tree
\* that spans the component of vertex 0.
C40_EdgesHoldNoneOffTheComponent ==
    pc = "done" =>
        /\ Len(prim_eager.mst) = g_n_vertices - 1
        /\ \A v \in 1..(g_n_vertices - 1) :
              IF v \in EagerComponent
              THEN /\ prim_eager.mst[v] \in WEdges
                   /\ v \in {edge_first(prim_eager.mst[v]),
                              edge_second(prim_eager.mst[v])}
              ELSE prim_eager.mst[v] = None
        /\ JoinedBy({0}, EagerEdges) = EagerComponent
        /\ Cardinality(EagerEdges) = Cardinality(EagerComponent) - 1

\* edges() of a graph that is not connected, with an edge at vertex 0.
C40_ReachedNone ==
    /\ pc = "done"
    /\ EagerComponent # GVertices
    /\ EagerEdges # {}

\* edges() of a connected graph of three vertices.
C40_ReachedConnected ==
    /\ pc = "done"
    /\ g_n_vertices = 3
    /\ EagerComponent = GVertices

-----------------------------------------------------------------------------
(* Properties of MstKruskal and MstPrimLazy on a graph without edges.      *)

\* A constructor has been called on a graph with vertices and no edge.
MstCalledOnNoEdges == g_n_edges = 0 /\ pc # "build"

\* C39, as claimed: on a graph with vertices and no edge MstKruskal and
\* MstPrimLazy construct without failing, with an empty list of edges of
\* weight 0.
C39_NoEdgesGivesEmptyTree ==
    MstCalledOnNoEdges =>
        /\ hq_raised = "none"
        /\ prim_lazy.err = "none"
        /\ kr_mst = <<>> /\ mst_weight(kr_mst) = 0
        /\ prim_lazy.mst = <<>> /\ mst_weight(prim_lazy.mst) = 0

\* What the code does: both constructors fail the assertion of
\* PriorityQueue(0, ...) and no loop is entered.
C39_NoEdgesFailsTheAssertion ==
    MstCalledOnNoEdges =>
        /\ pc = "raised"
        /\ hq_raised = "AssertionError"
        /\ prim_lazy \in {NoPrimLazy, [NoPrimLazy EXCEPT !.err = "AssertionError"]}

\* Both constructors have failed on a graph of one vertex.
C39_ReachedBoth ==
    /\ MstCalledOnNoEdges
    /\ g_n_vertices = 1
    /\ prim_lazy.err = "AssertionError"

-----------------------------------------------------------------------------
(* Properties of the walk of GraphCycle._dfs on any undirected graph.      *)

\* _dfs at v is about to take a visited neighbour w that is not edge_to[v].
GcMeets(v, w) ==
    /\ pc = "ctor"
    /\ gc_calls # <<>>
    /\ stack_top(gc_calls).ws # <<>>
    /\ v = stack_top(gc_calls).v
    /\ w = Head(stack_top(gc_calls).ws)
    /\ ~has_cycle(gc)
    /\ gc.state[w] = VISITED
    /\ w # gc.edge_to[v]

\* The vertices whose _dfs is in progress: v and its ancestors in the tree.
GcAncestors == {gc_calls[i].v : i \in DOMAIN gc_calls}

\* No edge was added twice between two different vertices.
GcNoRepeatedEdge ==
    \A v \in GVertices : \A i, j \in DOMAIN g_adj[v] :
        g_adj[v][i] = g_adj[v][j] /\ g_adj[v][i] # v => i = j

\* C37, as claimed: on any graph built with add_edge, a visited neighbour w
\* of v that is not edge_to[v] is v or an ancestor of v, and the walk
\* x = edge_to[x] from v never steps to -1.
C37_WalkStaysBelowTheRoot ==
    /\ \A v, w \in GVertices : GcMeets(v, w) => w \in GcAncestors
    /\ pc = "walk" => gc_walk.x # -1

\* What the code does: the same on the graphs without a repeated edge,
\* self-loops included.
C37_WithoutRepeatedEdges ==
    GcNoRepeatedEdge => C37_WalkStaysBelowTheRoot

\* With a repeated edge the walk steps to -1 and goes on from the last
\* cell of _edge_to.
C37_WalkPassesTheRoot ==
    /\ pc = "walk"
    /\ gc_walk.x = -1
    /\ Len(gc.cycle) = MaxWalk

\* The walk from a self-loop, and its end on a graph with a repeated edge.
C37_ReachedSelfLoop ==
    \E v \in GVertices : GcMeets(v, v)

C37_ReachedRepeatedEdge ==
    /\ ~GcNoRepeatedEdge
    /\ pc = "read"
    /\ has_cycle(gc)

-----------------------------------------------------------------------------
(* Properties of from_graph.                                               *)

\* The copy was made of the graph as it is now.
DgCopied == dg_copy # NoGraph /\ dg_copy.n_edges = g_n_edges

C36_CopyReversesAdjOrder ==
    DgCopied =>
        /\ dg_copy.n_vertices = g_n_vertices
        /\ dg_copy.n_edges = g_n_edges
        /\ \A v \in GVertices : adj(dg_copy, v) = stack_iter(adj(GState, v))

\* Copies of both classes are reached of a vertex with two different
\* entries.
C36_ReachedDiGraph ==
    /\ pc = "DiGraph"
    /\ DgCopied
    /\ \E v \in GVertices : Len(g_adj[v]) = 2 /\ g_adj[v][1] # g_adj[v][2]

C36_ReachedWeighted ==
    /\ pc = "EdgeWeightedDiGraph"
    /\ DgCopied
    /\ \E v \in GVertices : Len(g_adj[v]) = 2 /\ g_adj[v][1] # g_adj[v][2]

-----------------------------------------------------------------------------
(* Properties of the loop of MstPrimLazy.                                  *)

\* An iteration of the while loop is about to run: the edge it pops is the
\* top of the queue.
LazyPops == pc = "lazy_loop" /\ hq_count # 0

LazyVisited(v) == prim_lazy.state[v] = VISITED

\* The edge about to be popped is the lightest edge of the queue.
LazyPopsLightest ==
    \A k \in 1..hq_count : edge_weight(heap_top(HqState)) <= edge_weight(hq_pq[k])

\* The edge about to be popped is the heaviest edge of the queue.
LazyPopsHeaviest ==
    \A k \in 1..hq_count : edge_weight(heap_top(HqState)) >= edge_weight(hq_pq[k])

\* The iteration that pops edge: with both ends visited it changes neither
\* the tree nor a vertex state; otherwise exactly one end is visited, the
\* edge is appended to the tree, the other end is visited after the step
\* and no other vertex state changes.
LazyIteration(edge) ==
    \A v \in {edge_first(edge)}, w \in {edge_second(edge)} :
        IF LazyVisited(v) /\ LazyVisited(w)
        THEN /\ prim_lazy'.mst = prim_lazy.mst
             /\ prim_lazy'.state = prim_lazy.state
        ELSE /\ LazyVisited(v) # LazyVisited(w)
             /\ prim_lazy'.mst = Append(prim_lazy.mst, edge)
             /\ prim_lazy'.state =
                   [prim_lazy.state EXCEPT ![v] = VISITED, ![w] = VISITED]

\* C29, as claimed: every edge popped is the lightest of the queue at that
\* moment; a popped edge with both ends visited is discarded without a
\* change to the tree or the vertex states; an edge added to the tree has
\* exactly one visited end when added, and the other end is visited right
\* after.
C29_LazyPopsLightestCrossing ==
    /\ [](LazyPops => LazyPopsLightest)
    /\ [][LazyPops => LazyIteration(heap_top(HqState))]_vars

\* What the code does: the edge popped is the heaviest of the queue, and
\* the rest is as claimed.
C29_LazyPopsHeaviestCrossing ==
    /\ [](LazyPops => LazyPopsHeaviest)
    /\ [][LazyPops => LazyIteration(heap_top(HqState))]_vars

\* The loop has discarded an edge and added two, and is about to pop an
\* edge that is heavier than another edge of the queue.
C29_Reached ==
    /\ LazyPops
    /\ Len(prim_lazy.mst) >= 1
    /\ \E k \in 1..hq_count : edge_weight(heap_top(HqState)) > edge_weight(hq_pq[k])
    /\ LazyVisited(edge_first(heap_top(HqState)))
    /\ LazyVisited(edge_second(heap_top(HqState)))

-----------------------------------------------------------------------------
(* Properties of the loop of MstPrimEager.                                 *)

\* An iteration of the while loop is about to run: it pops top_ix().
EagerPops == pc = "eager_loop" /\ iq_count # 0

\* The vertices in the queue.
EagerQueued == {w \in GVertices : contains(IqState, w)}

\* The vertex about to be popped has the smallest dist_to of the queue.
EagerPopsSmallest ==
    \A w \in EagerQueued :
        prim_eager.dist_to[top_ix(IqState)] <= prim_eager.dist_to[w]

\* The vertex about to be popped has the largest dist_to of the queue.
EagerPopsLargest ==
    \A w \in EagerQueued :
        prim_eager.dist_to[top_ix(IqState)] >= prim_eager.dist_to[w]

\* _visit(graph, v) from the object p, with the edges es of adj(v) still to
\* come: whenever it calls change(w, key), key is less than the key w has
\* in the queue.
RECURSIVE EagerChangesDecrease(_, _, _)
EagerChangesDecrease(p, v, es) ==
    IF es = <<>> \/ p.err # "none" THEN TRUE
    ELSE /\ \A w \in {edge_other(Head(es), v)} :
              (/\ ~eager_is_visited(p, w)
               /\ edge_weight(Head(es)) < p.dist_to[w]
               /\ contains(p.pq, w)) => edge_weight(Head(es)) < p.pq.keys[w]
         /\ \A p1 \in {eager_visit_for(p, v, <<Head(es)>>)} :
              EagerChangesDecrease(p1, v, Tail(es))

\* The iteration about to run makes only strictly decreasing changes.
EagerDecreasesKeys ==
    \A v \in {top_ix(IqState)} :
        EagerChangesDecrease(
            [state |-> [prim_eager.state EXCEPT ![v] = VISITED],
             edge_to |-> prim_eager.edge_to,
             dist_to |-> prim_eager.dist_to,
             err |-> "none", pq |-> pop(IqState).q],
            v, adj(GState, v))

\* C30, as claimed: in every iteration of the loop the vertex popped is
\* the queued vertex of smallest dist_to, and every change(w, key) made by
\* _visit gives w a strictly smaller key.
C30_EagerPopsSmallestAndDecreases ==
    EagerPops => EagerPopsSmallest /\ EagerDecreasesKeys

\* What the code does: the vertex popped is the queued vertex of largest
\* dist_to; every change(w, key) gives w a strictly smaller key, and the
\* key of a queued vertex is its dist_to.
C30_EagerPopsLargestAndDecreases ==
    EagerPops =>
        /\ EagerPopsLargest
        /\ EagerDecreasesKeys
        /\ \A w \in EagerQueued : iq_keys[w] = prim_eager.dist_to[w]

\* The iteration about to run pops a vertex while another queued vertex
\* has a smaller dist_to, and its _visit calls change on a queued vertex.
C30_Reached ==
    /\ EagerPops
    /\ ~EagerPopsSmallest
    /\ \E i \in 1..Len(adj(GState, top_ix(IqState))) :
          \A w \in {edge_other(adj(GState, top_ix(IqState))[i], top_ix(IqState))} :
              /\ w \in EagerQueued
              /\ w # top_ix(IqState)
              /\ edge_weight(adj(GState, top_ix(IqState))[i]) < iq_keys[w]

-----------------------------------------------------------------------------
(* Properties of PathDijkstra.                                             *)

\* The edges of the weighted digraph.
WDiEdges == UNION {{g_adj[v][i] : i \in 1..Len(g_adj[v])} : v \in GVertices}

\* The least total weight of a directed path from s to v that visits no
\* vertex of the set seen; numpy_inf when there is none.
RECURSIVE PathWeight(_, _, _)
PathWeight(s, v, seen) ==
    IF s = v THEN 0
    ELSE LET through == {diedge_weight(e) + PathWeight(to_vertex(e), v,
                                                       seen \cup {to_vertex(e)}) :
                           e \in {x \in WDiEdges : /\ from_vertex(x) = s
                                                   /\ to_vertex(x) \notin seen}}
         IN  IF through = {} THEN numpy_inf
             ELSE CHOOSE x \in through : \A y \in through : x <= y

\* The least total weight of a directed simple path from s to v.
MinPathWeight(s, v) == PathWeight(s, v, {s})

\* The vertices a directed path leads to from s.
RECURSIVE WReach(_)
WReach(R) ==
    LET more == R \cup {to_vertex(e) : e \in {x \in WDiEdges : from_vertex(x) \in R}}
    IN  IF more = R THEN R ELSE WReach(more)

DijkstraConstructed == pc \in {"done", "read"}

\* C20: once PathDijkstra is constructed on a digraph whose weights are all
\* nonnegative, dist_to(source) is 0 and dist_to(v) of every vertex v
\* reachable from the source is the least total weight of a directed simple
\* path from the source to v.
C20_DistToIsMinimumPathWeight ==
    (DijkstraConstructed /\ \A e \in WDiEdges : diedge_weight(e) >= 0) =>
        /\ sp_dist_to(sp, sp.source) = 0
        /\ \A v \in WReach({sp.source}) :
              sp_dist_to(sp, v) = MinPathWeight(sp.source, v)

\* A constructed PathDijkstra on a digraph with an edge source -> v that is
\* heavier than a path of two edges from the source to v, one of them of
\* weight 0.
C20_Witness ==
    /\ DijkstraConstructed
    /\ \E e \in WDiEdges :
          /\ from_vertex(e) = sp.source
          /\ sp_dist_to(sp, to_vertex(e)) < diedge_weight(e)
          /\ sp.edge_to[to_vertex(e)] # e
    /\ \E e \in WDiEdges : diedge_weight(e) = 0

\* The while loop of PathDijkstra is about to pop a pair.
DijkstraPops == pc = "relax" /\ hq_count # 0

\* The vertex the pair on top of the queue leads to.
DijkstraTopVertex == to_vertex(pair_edge(heap_top(HqState)))

\* A pair popped for a vertex not yet visited records its _dist_to.
DijkstraFreshPairIsCurrent ==
    (DijkstraPops /\ ~sp_is_visited(sp, DijkstraTopVertex)) =>
        pair_weight(heap_top(HqState)) = sp.dist_to[DijkstraTopVertex]

\* One iteration relaxes at most the popped pair's vertex, and only when it
\* is not yet visited; a visited vertex stays visited and keeps its
\* _dist_to and _edge_to.
DijkstraRelaxesOnce ==
    DijkstraPops =>
        \A v \in GVertices :
            /\ sp_is_visited(sp, v) =>
                  /\ sp_is_visited(sp', v)
                  /\ sp'.dist_to[v] = sp.dist_to[v]
                  /\ sp'.edge_to[v] = sp.edge_to[v]
            /\ (~sp_is_visited(sp, v) /\ sp_is_visited(sp', v)) =>
                  v = DijkstraTopVertex

\* A pair popped for a visited vertex changes nothing but the queue, which
\* loses it.
DijkstraStalePairIsDropped ==
    (DijkstraPops /\ sp_is_visited(sp, DijkstraTopVertex)) =>
        /\ sp' = sp
        /\ hq_count' = hq_count - 1

\* C38: in PathDijkstra on nonnegative weights each vertex is relaxed at
\* most once; a popped pair whose vertex w is not yet visited records the
\* current dist_to[w]; dist_to[w] and edge_to[w] never change once w is
\* relaxed; a popped pair whose vertex is visited changes nothing.
C38_DijkstraRelaxesEachVertexOnce ==
    /\ []DijkstraFreshPairIsCurrent
    /\ [][DijkstraRelaxesOnce /\ DijkstraStalePairIsDropped]_vars

\* The loop is about to pop a stale pair: its vertex is visited, at a
\* distance below the one the pair records.
C38_Witness ==
    /\ DijkstraPops
    /\ sp_is_visited(sp, DijkstraTopVertex)
    /\ sp.dist_to[DijkstraTopVertex] < pair_weight(heap_top(HqState))

\* The weighted digraph has an edge of negative weight.
HasNegativeWeight == \E e \in WDiEdges : diedge_weight(e) < 0

\* C21: PathDijkstra on a digraph with an edge of negative weight, whether
\* the source leads to that edge or not, ends in the AssertionError of its
\* precondition: no vertex is relaxed, nothing is pushed, and there is no
\* _state, _dist_to or _edge_to.
C21_NegativeWeightFailsFirst ==
    (HasNegativeWeight /\ pc # "build") =>
        /\ pc = "raised"
        /\ sp.err = "AssertionError"
        /\ sp.state = <<>> /\ sp.dist_to = <<>> /\ sp.edge_to = <<>>
        /\ hq_count = 0
        /\ sp_path = NoSpPath

\* PathDijkstra has raised on a digraph whose only edge of negative weight
\* the source does not lead to, and whose source has an edge.
C21_Witness ==
    /\ pc = "raised"
    /\ sp.err = "AssertionError"
    /\ \E e \in WDiEdges : from_vertex(e) = sp.source /\ diedge_weight(e) >= 0
    /\ \A e \in WDiEdges :
          diedge_weight(e) < 0 => from_vertex(e) \notin WReach({sp.source})

\* The edges es, in this order, are a directed path of the digraph from s
\* to v; no edge at all is the path from s to s.
IsDiPath(es, s, v) ==
    /\ \A i \in 1..Len(es) : es[i] \in WDiEdges
    /\ IF es = <<>> THEN s = v
       ELSE /\ from_vertex(es[1]) = s
            /\ to_vertex(es[Len(es)]) = v
            /\ \A i \in 1..(Len(es) - 1) :
                  to_vertex(es[i]) = from_vertex(es[i + 1])

\* The sum of the weights of the edges es.
RECURSIVE DiWeightOf(_)
DiWeightOf(es) ==
    IF es = <<>> THEN 0 ELSE diedge_weight(Head(es)) + DiWeightOf(Tail(es))

\* C22: on the constructed PathDijkstra has_path_to(v) is true exactly for
\* the vertices a directed path leads to from the source; path_to(v) ends,
\* returns None when has_path_to(v) is false and otherwise a Stack that
\* yields the edges of a directed path from the source to v, first edge
\* first, whose weights sum to dist_to(v): no edge when v is the source.
C22_PathToIsAShortestPath ==
    (pc = "read") =>
        /\ \A R \in {WReach({sp.source})} :
              \A u \in GVertices : has_path_to(sp, u) <=> (u \in R)
        /\ ~sp_path.loops
        /\ IF has_path_to(sp, sp_path.v)
           THEN /\ ~sp_path.none
                /\ IsDiPath(stack_iter(sp_path.stack), sp.source, sp_path.v)
                /\ DiWeightOf(stack_iter(sp_path.stack))
                      = sp_dist_to(sp, sp_path.v)
                /\ (sp_path.v = sp.source) => (sp_path.stack = <<>>)
           ELSE sp_path = [v |-> sp_path.v, none |-> TRUE, stack |-> <<>>,
                           loops |-> FALSE]

\* path_to(v) has returned a path of two edges or more, to a vertex that
\* the source also has an edge to.
C22_Witness ==
    /\ pc = "read"
    /\ ~sp_path.none
    /\ Len(sp_path.stack) >= 2
    /\ \E e \in WDiEdges : from_vertex(e) = sp.source /\ to_vertex(e) = sp_path.v

-----------------------------------------------------------------------------
(* Properties of DiGraph and EdgeWeightedDiGraph.                          *)

\* What a call that returned has stored in the list of its first endpoint.
DgStored(call) ==
    IF Len(call) = 2 THEN call[2] ELSE DiEdge(call[1], call[2], call[3])

\* The calls that returned with first endpoint v, the latest first.
RECURSIVE DgLatestFirst(_, _)
DgLatestFirst(calls, v) ==
    IF calls = <<>> THEN <<>>
    ELSE IF calls[Len(calls)][1] = v
    THEN <<DgStored(calls[Len(calls)])>>
            \o DgLatestFirst(SubSeq(calls, 1, Len(calls) - 1), v)
    ELSE DgLatestFirst(SubSeq(calls, 1, Len(calls) - 1), v)

\* The call names an endpoint that is no vertex of the digraph.
DgOutside(call) ==
    ~(vertex_is_valid(GState, call[1]) /\ vertex_is_valid(GState, call[2]))

\* C23: after any add_edge calls on a DiGraph or an EdgeWeightedDiGraph
\* adj(v) yields what the calls that returned have stored for v, the latest
\* first; every stored neighbour, and both ends of every stored edge, is a
\* valid vertex; n_edges() is the number of calls that returned; and a call
\* with an endpoint outside 0..n_vertices - 1 raises and leaves the lists
\* and n_edges as they were.
C23_AdjIsLatestFirst ==
    /\ [](\A v \in GVertices : adj(GState, v) = DgLatestFirst(dg_added, v))
    /\ [](\A v \in GVertices : \A i \in 1..Len(g_adj[v]) :
             IF pc = "DiGraph" THEN vertex_is_valid(GState, g_adj[v][i])
             ELSE /\ from_vertex(g_adj[v][i]) = v
                  /\ vertex_is_valid(GState, to_vertex(g_adj[v][i])))
    /\ [](g_n_edges = Len(dg_added))
    /\ [](dg_call # <<>> => (dg_raised = "AssertionError" <=> DgOutside(dg_call)))
    /\ [][(dg_call' # <<>> /\ DgOutside(dg_call'))
            => /\ dg_raised' = "AssertionError"
               /\ UNCHANGED <<g_n_vertices, g_n_edges, g_adj, dg_added>>]_vars

\* Two calls have returned, both for the same vertex with different
\* neighbours, and the latest call has raised.
C23_Witness ==
    /\ Len(dg_added) = 2
    /\ dg_raised = "AssertionError"
    /\ \E v \in GVertices : /\ Len(g_adj[v]) >= 2
                            /\ g_adj[v][1] # g_adj[v][2]

-----------------------------------------------------------------------------
(* Specifications: one per class; the other classes' objects stay as       *)
(* constructed.                                                            *)

IqParked ==
    /\ iq_capacity = 1
    /\ iq_compare = "lt"
    /\ iq_count = 0
    /\ iq_keys = [c \in 0..1 |-> None]
    /\ iq_pq = [c \in 0..1 |-> NoIndex]
    /\ iq_qp = [c \in 0..1 |-> -1]
    /\ iq_raised = "none"
    /\ iq_allok = TRUE
    /\ iq_domain = Keys

HqParked ==
    /\ hq_capacity = 1
    /\ hq_compare = "lt"
    /\ hq_count = 0
    /\ hq_pq = [c \in 0..1 |-> None]
    /\ hq_raised = "none"

UfParked ==
    /\ uf_n_keys = 1
    /\ uf_n_sets = 1
    /\ uf_parent = [i \in 0..0 |-> 0]
    /\ uf_size = [i \in 0..0 |-> 1]
    /\ uf_raised = "none"
    /\ uf_linked = [i \in 0..0 |-> {0}]

\* No algorithm object.
NoObjects ==
    /\ dg_call = <<>>
    /\ dg_raised = "none"
    /\ dg_added = <<>>
    /\ dg_copy = NoGraph
    /\ bfs = NoBfs
    /\ bfs_path = NoPath
    /\ bfs_run = NoBfsRun
    /\ dfp = NoDfp
    /\ dfp_path = NoPath
    /\ topo = NoTopo
    /\ scc = NoScc
    /\ gc = NoCycle
    /\ gc_s = 0
    /\ gc_calls = <<>>
    /\ gc_cycle = NoPath
    /\ gc_walk = NoWalk
    /\ kr_mst = <<>>
    /\ kr_edges = <<>>
    /\ prim_lazy = NoPrimLazy
    /\ prim_eager = NoPrimEager
    /\ sp = NoDijkstra
    /\ sp_path = NoSpPath

\* No graph and no algorithm object.
GrParked ==
    /\ pc = "build"
    /\ g_n_vertices = 0
    /\ g_n_edges = 0
    /\ g_adj = <<>>
    /\ NoObjects

InitIq == IqInit /\ HqParked /\ UfParked /\ GrParked

InitHq == HqInit /\ IqParked /\ UfParked /\ GrParked

InitUf == UfInit /\ IqParked /\ HqParked /\ GrParked

\* The weighted graph as constructed, handed to no algorithm yet.
InitMst == WInit /\ NoObjects /\ IqParked /\ HqParked /\ UfParked

\* The weighted digraph as constructed, handed to no algorithm yet.
InitDijkstra == WDiInit /\ NoObjects /\ IqParked /\ HqParked /\ UfParked

\* The digraph as constructed.
InitDg == DgInit /\ NoObjects /\ IqParked /\ HqParked /\ UfParked

\* The graph as constructed, handed to no algorithm yet.
InitGraph == GInit /\ NoObjects /\ IqParked /\ HqParked /\ UfParked

\* The queue of the documented scenario: capacity 4, minimum first, keys
\* drawn from 1.0, 2.0, 5.0 and 8.0.
IqScenarioInit ==
    /\ iq_capacity = 4
    /\ iq_compare = "gt"
    /\ iq_count = 0
    /\ iq_keys = [c \in 0..4 |-> None]
    /\ iq_pq = [c \in 0..4 |-> NoIndex]
    /\ iq_qp = [c \in 0..4 |-> -1]
    /\ iq_raised = "none"
    /\ iq_allok = TRUE
    /\ iq_domain = {1, 2, 5, 8}

InitIqScenario == IqScenarioInit /\ HqParked /\ UfParked /\ GrParked

SpecIq == InitIq /\ [][IqNext]_vars

\* A client of the two queue classes: it builds one of them and calls it.
InitQueues ==
    /\ pc \in {"PriorityQueue", "PriorityIndexQueue"}
    /\ IF pc = "PriorityQueue" THEN HqInit /\ IqParked ELSE IqInit /\ HqParked
    /\ UfParked
    /\ g_n_vertices = 0
    /\ g_n_edges = 0
    /\ g_adj = <<>>
    /\ NoObjects

QueuesHq == pc = "PriorityQueue" /\ HqNext

QueuesIq == pc = "PriorityIndexQueue" /\ IqNext

QueuesNext ==
    \/ QueuesHq
    \/ QueuesIq

SpecQueues == InitQueues /\ [][QueuesNext]_vars

SpecHq == InitHq /\ [][HqNext]_vars

SpecUf == InitUf /\ [][UfNext]_vars

SpecIqScenario == InitIqScenario /\ [][IqNext]_vars

SpecBfs == InitGraph /\ [][BfsNext]_vars

SpecBfsRun == InitGraph /\ [][BfsRunNext]_vars

SpecDfp == InitGraph /\ [][DfpNext]_vars

SpecTopo == InitGraph /\ [][TopoNext]_vars

SpecScc == InitGraph /\ [][SccNext]_vars

SpecCycle == InitGraph /\ [][GcNext]_vars

SpecCycleAny == InitGraph /\ [][GcAnyNext]_vars

SpecMst == InitMst /\ [][MstNext]_vars

SpecDg == InitDg /\ [][DgNext]_vars

SpecDgCopy == InitDg /\ [][DgCopyNext]_vars

SpecDijkstra == InitDijkstra /\ [][DijkstraNext]_vars

====
